---- MODULE Spec2Model ----
(***************************************************************************)
(* Model of the vma-socket wrapper layer: the translation of native result *)
(* codes into caller-visible results by VmaTcpSocket, Client and           *)
(* VmaUdpSocket (src/src/tcp.rs, src/src/udp.rs, src/src/lib.rs).          *)
(*                                                                         *)
(* The native engine (src/c/*.c) is not part of the sources; a native call *)
(* is an environment step that hands back a c_int result code and, where   *)
(* the ABI has one, a byte count.                                          *)
(***************************************************************************)
EXTENDS Integers, Sequences, FiniteSets, TLC

\* ------------------------------------------------------------------------
\* Bounds of the model
\* ------------------------------------------------------------------------
\* largest byte count a native send/recv reports
MaxBytes == 2
\* largest number of accepted clients alive at once
MaxClients == 1
\* largest number of datagrams queued on the UDP endpoint
MaxPending == 2

\* ------------------------------------------------------------------------
\* Result-code tables
\* ------------------------------------------------------------------------
\* enum TcpResult: variant name |-> discriminant
TcpResult ==
    [ TcpSuccess               |-> 0,
      TcpErrorSocketCreate     |-> -1,
      TcpErrorSocketOption     |-> -2,
      TcpErrorBind             |-> -3,
      TcpErrorListen           |-> -4,
      TcpErrorAccept           |-> -5,
      TcpErrorConnect          |-> -6,
      TcpErrorReconnect        |-> -7,
      TcpErrorSend             |-> -8,
      TcpErrorRecv             |-> -9,
      TcpErrorTimeout          |-> -10,
      TcpErrorInvalidParam     |-> -11,
      TcpErrorNotInitialized   |-> -12,
      TcpErrorClosed           |-> -13,
      TcpErrorWouldBlock       |-> -14,
      TcpErrorAlreadyConnected |-> -15 ]

\* enum UdpResult: variant name |-> discriminant
UdpResult ==
    [ UdpSuccess             |-> 0,
      UdpErrorSocketCreate   |-> -1,
      UdpErrorSocketOption   |-> -2,
      UdpErrorBind           |-> -3,
      UdpErrorConnect        |-> -4,
      UdpErrorSend           |-> -5,
      UdpErrorRecv           |-> -6,
      UdpErrorTimeout        |-> -7,
      UdpErrorInvalidParam   |-> -8,
      UdpErrorNotInitialized |-> -9,
      UdpErrorClosed         |-> -10 ]

\* the discriminants of the two enums
TcpResultCodes == { TcpResult[n] : n \in DOMAIN TcpResult }
UdpResultCodes == { UdpResult[n] : n \in DOMAIN UdpResult }

\* c_int values a native function can hand back that are in neither table:
\* the extern "C" declarations promise only a c_int
OutOfTableCodes == { 1, -16 }

\* what a native TCP / UDP function may return
NativeTcpCodes == TcpResultCodes \cup OutOfTableCodes
NativeUdpCodes == UdpResultCodes \cup OutOfTableCodes \cup { TcpResult.TcpErrorWouldBlock }

\* an enum value that is none of the declared variants
InvalidEnum == "<invalid discriminant>"

\* ------------------------------------------------------------------------
\* Values returned to the caller
\* ------------------------------------------------------------------------
\* Ok(v) of payload type ty
Ok(ty, v) == [tag |-> "Ok", ty |-> ty, val |-> v]
\* Err(v) of error type ty
Err(ty, v) == [tag |-> "Err", ty |-> ty, val |-> v]
\* the call had undefined behaviour: no defined value reaches the caller
Undefined == [tag |-> "UB", ty |-> "", val |-> 0]
\* nothing returned yet
NoRet == [tag |-> "None", ty |-> "", val |-> 0]

\* mem::transmute::<i32, TcpResult>(result): a declared discriminant gives its
\* variant; any other integer is undefined behaviour, so the enum value the
\* rest of the function sees may be any variant or none of them
TcpTransmute(result) ==
    IF result \in TcpResultCodes
    THEN { n \in DOMAIN TcpResult : TcpResult[n] = result }
    ELSE DOMAIN TcpResult \cup { InvalidEnum }

\* mem::transmute::<i32, UdpResult>(result)
UdpTransmute(result) ==
    IF result \in UdpResultCodes
    THEN { n \in DOMAIN UdpResult : UdpResult[n] = result }
    ELSE DOMAIN UdpResult \cup { InvalidEnum }

\* format!("<prefix>: {:?}", e) with the derived Debug of TcpResult / UdpResult:
\* the text is the prefix followed by the variant name
FormatDebug(prefix, e) == <<prefix, e>>

\* Some(v) and None of an Option
Some(v) == <<v>>
None == <<>>

\* duration_to_ms(timeout): imported by tcp.rs from crate::common, whose
\* definition is not in the sources; None is the indefinite wait (-1), a
\* duration is its whole milliseconds (durations are given in ms here)
duration_to_ms(timeout) == IF timeout = None THEN -1 ELSE timeout[1]

\* x as c_int, for a non-negative x given as top * 2^16 + low16 with
\* low16 < 2^16: the low 32 bits of x read as a signed integer
as_c_int(top, low16) ==
    LET t == top % 65536
    IN  IF t >= 32768 THEN (t - 65536) * 65536 + low16 ELSE t * 65536 + low16

\* the whole milliseconds in secs seconds and nanos nanoseconds
\* (nanos < 10^9), that is secs * 1000 + nanos / 1_000_000, narrowed by
\* `as c_int`; the product is taken in 16-bit limbs so that no intermediate
\* value leaves the 32-bit range
millis_as_c_int(secs, nanos) ==
    LET low == (secs % 65536) * 1000 + nanos \div 1000000
        top == (secs \div 65536) * 1000 + low \div 65536
    IN  as_c_int(top, low % 65536)

\* unixnano_to_ms(duration): Some(t) => (t / 1_000_000) as c_int, None => -1.
\* A u64 nanosecond count t is the pair <<t / 10^9, t % 10^9>>
unixnano_to_ms(duration) ==
    IF duration = None THEN -1 ELSE millis_as_c_int(duration[1][1], duration[1][2])

\* lib.rs: Some(t) => t.as_millis() as c_int, None => -1.  A Duration is the
\* pair <<as_secs, subsec_nanos>>
as_millis_c_int(timeout) ==
    IF timeout = None THEN -1 ELSE millis_as_c_int(timeout[1][1], timeout[1][2])

\* a caller's timeout of zero length, and one of positive length, in the
\* <<seconds, nanoseconds>> form of the two conversions above
IsZeroTimeout(t) == t # None /\ t[1] = <<0, 0>>
IsPositiveTimeout(t) == t # None /\ (t[1][1] > 0 \/ t[1][2] > 0)

\* timeouts a caller passes to the TCP operations (Option<Duration>, in ms)
DurationInputs == { None, Some(0), Some(100) }
\* timeouts a caller passes to udp.rs recv / recv_from (Option<u64>, in ns):
\* none, 0, 999_999 ns, 100 ms, 2^31 ms and 2^32 ms
NanoInputs ==
    { None, Some(<<0, 0>>), Some(<<0, 999999>>), Some(<<0, 100000000>>),
      Some(<<2147483, 648000000>>), Some(<<4294967, 296000000>>) }
\* timeouts a caller passes to lib.rs recv / recv_from (Option<Duration>):
\* none, zero, 500 microseconds, 100 ms and 2^31 ms
LibDurationInputs ==
    { None, Some(<<0, 0>>), Some(<<0, 500000>>), Some(<<0, 100000000>>),
      Some(<<2147483, 648000000>>) }

\* ------------------------------------------------------------------------
\* tcp.rs, low level: TcpSocketWrapper and Client.  Each operator is the
\* function body after the native call: result is the native c_int, the
\* second argument what the native call wrote through its out-pointer.
\* The value is the set of results the body can produce.
\* ------------------------------------------------------------------------
\* return Err(unsafe { mem::transmute(result) }) for a TcpResult
TcpErrTransmute(result) ==
    { IF e = InvalidEnum THEN Undefined ELSE Err("TcpResult", e) : e \in TcpTransmute(result) }

\* the shape shared by every TcpSocketWrapper / Client method:
\* if result != TcpSuccess as i32 { return Err(transmute(result)) }  Ok(value)
TcpCheckResult(result, ty, value) ==
    IF result # TcpResult.TcpSuccess
    THEN TcpErrTransmute(result)
    ELSE { Ok(ty, value) }

TcpSocketWrapper_new(result) == TcpCheckResult(result, "TcpSocketWrapper", 0)
TcpSocketWrapper_bind(result) == TcpCheckResult(result, "()", 0)
\* TcpSocketWrapper::listen that does not look at the native result
TcpSocketWrapper_listen_IgnoreResult(result) == { Ok("()", 0) }
TcpSocketWrapper_listen(result) == TcpCheckResult(result, "()", 0)
\* TcpSocketWrapper::accept that takes a native Timeout for a success
TcpSocketWrapper_accept_TimeoutOk(result, client) ==
    IF result = TcpResult.TcpErrorTimeout THEN { Ok("Client", client) }
    ELSE TcpCheckResult(result, "Client", client)
TcpSocketWrapper_accept(result, client) == TcpCheckResult(result, "Client", client)
\* TcpSocketWrapper::connect that does not look at the native result
TcpSocketWrapper_connect_IgnoreResult(result) == { Ok("()", 0) }
TcpSocketWrapper_connect(result) == TcpCheckResult(result, "()", 0)
TcpSocketWrapper_reconnect(result) == TcpCheckResult(result, "()", 0)
\* TcpSocketWrapper::send that does not look at the native result
TcpSocketWrapper_send_IgnoreResult(result, bytes_sent) == { Ok("usize", bytes_sent) }
TcpSocketWrapper_send(result, bytes_sent) == TcpCheckResult(result, "usize", bytes_sent)
TcpSocketWrapper_recv(result, bytes_received) == TcpCheckResult(result, "usize", bytes_received)
TcpSocketWrapper_get_stats(result, stats) == TcpCheckResult(result, "stats", stats)

Client_send(result, bytes_sent) == TcpCheckResult(result, "usize", bytes_sent)
Client_recv(result, bytes_received) == TcpCheckResult(result, "usize", bytes_received)
Client_close(result) == TcpCheckResult(result, "()", 0)

\* ------------------------------------------------------------------------
\* tcp.rs, high level: VmaTcpSocket.  Each operator is the match on the
\* inner result r.
\* ------------------------------------------------------------------------
\* .map_err(|e| format!("<prefix>: {:?}", e)); formatting an enum value that
\* is no declared variant is undefined
TcpMapErr(r, prefix) ==
    IF r.tag = "Err" THEN Err("String", FormatDebug(prefix, r.val)) ELSE r

VmaTcpSocket_new(r) ==
    IF r.tag = "Ok" THEN Ok("VmaTcpSocket", 0)
    ELSE TcpMapErr(r, "Failed to create TCP socket")

VmaTcpSocket_with_options(r) ==
    IF r.tag = "Ok" THEN Ok("VmaTcpSocket", 0)
    ELSE TcpMapErr(r, "Failed to create TCP socket with options")

VmaTcpSocket_bind(r) == TcpMapErr(r, "Failed to bind")

VmaTcpSocket_listen(r) == TcpMapErr(r, "Failed to listen")

\* VmaTcpSocket::accept without its Timeout arm
VmaTcpSocket_accept_NoTimeoutArm(r) ==
    IF r.tag = "Ok" THEN Ok("Option<Client>", Some(r.val))
    ELSE TcpMapErr(r, "Failed to accept")

VmaTcpSocket_accept(r) ==
    IF r.tag = "Ok" THEN Ok("Option<Client>", Some(r.val))
    ELSE IF r.tag = "Err" /\ r.val = "TcpErrorTimeout" THEN Ok("Option<Client>", None)
    ELSE TcpMapErr(r, "Failed to accept")

\* VmaTcpSocket::connect whose Timeout arm answers Ok(true)
VmaTcpSocket_connect_TimeoutTrue(r) ==
    IF r.tag = "Ok" THEN Ok("bool", TRUE)
    ELSE IF r.tag = "Err" /\ r.val = "TcpErrorTimeout" THEN Ok("bool", TRUE)
    ELSE TcpMapErr(r, "Failed to connect")

VmaTcpSocket_connect(r) ==
    IF r.tag = "Ok" THEN Ok("bool", TRUE)
    ELSE IF r.tag = "Err" /\ r.val = "TcpErrorTimeout" THEN Ok("bool", FALSE)
    ELSE TcpMapErr(r, "Failed to connect")

\* VmaTcpSocket::try_reconnect without its TcpErrorReconnect arm
VmaTcpSocket_try_reconnect_NoReconnectArm(r) ==
    IF r.tag = "Ok" THEN Ok("bool", TRUE)
    ELSE IF r.tag = "Err" /\ r.val = "TcpErrorTimeout" THEN Ok("bool", FALSE)
    ELSE TcpMapErr(r, "Failed to reconnect")

VmaTcpSocket_try_reconnect(r) ==
    IF r.tag = "Ok" THEN Ok("bool", TRUE)
    ELSE IF r.tag = "Err" /\ r.val = "TcpErrorTimeout" THEN Ok("bool", FALSE)
    ELSE IF r.tag = "Err" /\ r.val = "TcpErrorReconnect" THEN Ok("bool", FALSE)
    ELSE TcpMapErr(r, "Failed to reconnect")

\* VmaTcpSocket::send with the arms of recv: Closed, not WouldBlock, is benign
VmaTcpSocket_send_RecvArms(r) ==
    IF r.tag = "Ok" THEN Ok("usize", r.val)
    ELSE IF r.tag = "Err" /\ r.val = "TcpErrorClosed" THEN Ok("usize", 0)
    ELSE TcpMapErr(r, "Failed to send")

VmaTcpSocket_send(r) ==
    IF r.tag = "Ok" THEN Ok("usize", r.val)
    ELSE IF r.tag = "Err" /\ r.val = "TcpErrorWouldBlock" THEN Ok("usize", 0)
    ELSE TcpMapErr(r, "Failed to send")

\* VmaTcpSocket::recv without its TcpErrorClosed arm
VmaTcpSocket_recv_NoClosedArm(r) ==
    IF r.tag = "Ok" THEN Ok("usize", r.val)
    ELSE IF r.tag = "Err" /\ r.val = "TcpErrorTimeout" THEN Ok("usize", 0)
    ELSE TcpMapErr(r, "Failed to receive")

VmaTcpSocket_recv(r) ==
    IF r.tag = "Ok" THEN Ok("usize", r.val)
    ELSE IF r.tag = "Err" /\ r.val = "TcpErrorTimeout" THEN Ok("usize", 0)
    ELSE IF r.tag = "Err" /\ r.val = "TcpErrorClosed" THEN Ok("usize", 0)
    ELSE TcpMapErr(r, "Failed to receive")

VmaTcpSocket_get_stats(r) == TcpMapErr(r, "Failed to get stats")

\* ------------------------------------------------------------------------
\* udp.rs / lib.rs, low level: UdpSocketWrapper
\* ------------------------------------------------------------------------
\* return Err(unsafe { mem::transmute::<i32, UdpResult>(result) })
UdpErrTransmute(result) ==
    { IF e = InvalidEnum THEN Undefined ELSE Err("UdpResult", e) : e \in UdpTransmute(result) }

\* if result != UdpSuccess as i32 { return Err(transmute(result)) }  Ok(value)
UdpCheckResult(result, ty, value) ==
    IF result # UdpResult.UdpSuccess
    THEN UdpErrTransmute(result)
    ELSE { Ok(ty, value) }

UdpSocketWrapper_new(result) == UdpCheckResult(result, "UdpSocketWrapper", 0)
UdpSocketWrapper_bind(result) == UdpCheckResult(result, "()", 0)
UdpSocketWrapper_connect(result) == UdpCheckResult(result, "()", 0)
UdpSocketWrapper_send(result, bytes_sent) == UdpCheckResult(result, "usize", bytes_sent)
UdpSocketWrapper_send_to(result, bytes_sent) == UdpCheckResult(result, "usize", bytes_sent)
UdpSocketWrapper_recv(result, bytes_received) == UdpCheckResult(result, "usize", bytes_received)
UdpSocketWrapper_recv_from(result, packet) == UdpCheckResult(result, "Packet", packet)
UdpSocketWrapper_get_stats(result, stats) == UdpCheckResult(result, "stats", stats)

\* ------------------------------------------------------------------------
\* udp.rs, high level: VmaUdpSocket with std::io::Error
\* ------------------------------------------------------------------------
\* impl From<UdpResult> for std::io::Error: variant |-> (ErrorKind, message)
From_UdpResult ==
    [ UdpSuccess             |-> [kind |-> "Other",             msg |-> "Unexpected success"],
      UdpErrorSocketCreate   |-> [kind |-> "ConnectionRefused", msg |-> "Socket creation failed"],
      UdpErrorSocketOption   |-> [kind |-> "InvalidInput",      msg |-> "Socket option error"],
      UdpErrorBind           |-> [kind |-> "AddrInUse",         msg |-> "Bind failed"],
      UdpErrorConnect        |-> [kind |-> "ConnectionRefused", msg |-> "Connect failed"],
      UdpErrorSend           |-> [kind |-> "BrokenPipe",        msg |-> "Send failed"],
      UdpErrorRecv           |-> [kind |-> "ConnectionReset",   msg |-> "Receive failed"],
      UdpErrorTimeout        |-> [kind |-> "TimedOut",          msg |-> "Operation timed out"],
      UdpErrorInvalidParam   |-> [kind |-> "InvalidInput",      msg |-> "Invalid parameter"],
      UdpErrorNotInitialized |-> [kind |-> "NotConnected",      msg |-> "Not initialized"],
      UdpErrorClosed         |-> [kind |-> "ConnectionAborted", msg |-> "Socket closed"] ]

\* .map_err(|e| e.into())
UdpIntoIoError(r) ==
    IF r.tag = "Err" THEN Err("io::Error", From_UdpResult[r.val]) ELSE r

VmaUdpSocket_new(r) ==
    IF r.tag = "Ok" THEN Ok("VmaUdpSocket", 0) ELSE UdpIntoIoError(r)

VmaUdpSocket_bind(r) == UdpIntoIoError(r)

VmaUdpSocket_connect(r) == UdpIntoIoError(r)

VmaUdpSocket_send(r) == UdpIntoIoError(r)

VmaUdpSocket_send_to(r) == UdpIntoIoError(r)

VmaUdpSocket_recv(r) ==
    IF r.tag = "Ok" THEN Ok("usize", r.val)
    ELSE IF r.tag = "Err" /\ r.val = "UdpErrorTimeout" THEN Ok("usize", 0)
    ELSE UdpIntoIoError(r)

\* VmaUdpSocket::recv_from whose Timeout arm is missing
VmaUdpSocket_recv_from_NoTimeoutArm(r) ==
    IF r.tag = "Ok" THEN Ok("Option<Packet>", Some(r.val))
    ELSE UdpIntoIoError(r)

VmaUdpSocket_recv_from(r) ==
    IF r.tag = "Ok" THEN Ok("Option<Packet>", Some(r.val))
    ELSE IF r.tag = "Err" /\ r.val = "UdpErrorTimeout" THEN Ok("Option<Packet>", None)
    ELSE UdpIntoIoError(r)

VmaUdpSocket_get_stats(r) == UdpIntoIoError(r)

\* ------------------------------------------------------------------------
\* lib.rs, high level: VmaUdpSocket with String errors
\* ------------------------------------------------------------------------
\* .map_err(|e| format!("<prefix>: {:?}", e))
LibMapErr(r, prefix) ==
    IF r.tag = "Err" THEN Err("String", FormatDebug(prefix, r.val)) ELSE r

Lib_VmaUdpSocket_new(r) ==
    IF r.tag = "Ok" THEN Ok("VmaUdpSocket", 0) ELSE LibMapErr(r, "Failed to create socket")

Lib_VmaUdpSocket_bind(r) == LibMapErr(r, "Failed to bind")

Lib_VmaUdpSocket_connect(r) == LibMapErr(r, "Failed to connect")

Lib_VmaUdpSocket_send(r) == LibMapErr(r, "Failed to send")

Lib_VmaUdpSocket_send_to(r) == LibMapErr(r, "Failed to send to address")

Lib_VmaUdpSocket_recv(r) ==
    IF r.tag = "Ok" THEN Ok("usize", r.val)
    ELSE IF r.tag = "Err" /\ r.val = "UdpErrorTimeout" THEN Ok("usize", 0)
    ELSE LibMapErr(r, "Failed to receive")

Lib_VmaUdpSocket_recv_from(r) ==
    IF r.tag = "Ok" THEN Ok("Option<Packet>", Some(r.val))
    ELSE IF r.tag = "Err" /\ r.val = "UdpErrorTimeout" THEN Ok("Option<Packet>", None)
    ELSE LibMapErr(r, "Failed to receive from")

Lib_VmaUdpSocket_get_stats(r) == LibMapErr(r, "Failed to get stats")

\* ------------------------------------------------------------------------
\* The native engine, as far as the wrapper depends on it
\* ------------------------------------------------------------------------
\* udp_socket_recv / udp_socket_recvfrom: with a datagram queued the call
\* succeeds; with none queued and timeout_ms >= 0 the wait ends in Timeout
\* (at once for 0); with none queued and a negative timeout it waits for an
\* arrival.  Any call can instead fail with another code.
udp_socket_recv_codes(pending, tmo_ms) ==
    IF pending > 0 THEN NativeUdpCodes \ { UdpResult.UdpErrorTimeout }
    ELSE IF tmo_ms >= 0 THEN NativeUdpCodes \ { UdpResult.UdpSuccess }
    ELSE NativeUdpCodes \ { UdpResult.UdpSuccess, UdpResult.UdpErrorTimeout }

\* the four counters get_stats reads back
StatsInputs == { <<p, p, b, b>> : p \in 0..1, b \in 0..MaxBytes }

\* the byte count a native send / recv writes through its out-pointer: the
\* wrapper initialises it to 0 and the native call sets it when it succeeds
NativeByteCounts(code) == IF code = 0 THEN 0..MaxBytes ELSE { 0 }

\* enum TcpConnectionState, the state field of the native TcpSocket
TcpConnectionState == { "Disconnected", "Connecting", "Connected", "Listening" }

\* the codes with which the native TCP engine turns down a call that is not
\* legal in the endpoint's state: invalid parameter, not initialized, already
\* connected, or the failure code of the operation itself
tcp_reject_codes(failure) ==
    { TcpResult.TcpErrorInvalidParam, TcpResult.TcpErrorNotInitialized,
      TcpResult.TcpErrorAlreadyConnected, failure }

\* tcp_socket_bind: legal only from Disconnected; a second bind fails
tcp_socket_bind_codes(state, bound) ==
    IF state = "Disconnected" /\ ~bound THEN NativeTcpCodes
    ELSE tcp_reject_codes(TcpResult.TcpErrorBind)

\* tcp_socket_listen: legal only after bind, from Disconnected, with a
\* backlog of at least 1
tcp_socket_listen_codes(state, bound, backlog) ==
    IF state = "Disconnected" /\ bound /\ backlog >= 1 THEN NativeTcpCodes
    ELSE tcp_reject_codes(TcpResult.TcpErrorListen)

\* tcp_socket_accept: legal only in Listening.  peer: a peer's connection is
\* there to be taken before the wait ends.  With none, a wait of
\* timeout_ms >= 0 ends in Timeout (at once for 0) and an indefinite wait
\* ends only by failing.
tcp_socket_accept_codes(state, peer, tmo_ms) ==
    IF state # "Listening" THEN tcp_reject_codes(TcpResult.TcpErrorAccept)
    ELSE IF peer THEN NativeTcpCodes \ { TcpResult.TcpErrorTimeout }
    ELSE IF tmo_ms >= 0 THEN NativeTcpCodes \ { TcpResult.TcpSuccess }
    ELSE NativeTcpCodes \ { TcpResult.TcpSuccess, TcpResult.TcpErrorTimeout }

\* tcp_socket_connect: legal only from Disconnected
tcp_socket_connect_codes(state) ==
    IF state = "Disconnected" THEN NativeTcpCodes
    ELSE tcp_reject_codes(TcpResult.TcpErrorConnect)

\* tcp_socket_connect, the state it leaves: the attempt passes through
\* Connecting and ends Connected on success, Disconnected on a timeout and on
\* a failure; a call that was turned down leaves the state as it is
tcp_socket_connect_state(state, code) ==
    IF state # "Disconnected" THEN state
    ELSE IF code = TcpResult.TcpSuccess THEN "Connected" ELSE "Disconnected"

\* tcp_socket_reconnect: legal from Connected and from Disconnected
tcp_socket_reconnect_codes(state) ==
    IF state \in { "Connected", "Disconnected" } THEN NativeTcpCodes
    ELSE tcp_reject_codes(TcpResult.TcpErrorReconnect)

\* tcp_socket_reconnect, the state it leaves
tcp_socket_reconnect_state(state, code) ==
    IF state \notin { "Connected", "Disconnected" } THEN state
    ELSE IF code = TcpResult.TcpSuccess THEN "Connected" ELSE "Disconnected"

\* tcp_socket_send / tcp_socket_recv: legal only in Connected
tcp_socket_send_codes(state) ==
    IF state = "Connected" THEN NativeTcpCodes
    ELSE tcp_reject_codes(TcpResult.TcpErrorSend)

tcp_socket_recv_codes(state) ==
    IF state = "Connected" THEN NativeTcpCodes
    ELSE tcp_reject_codes(TcpResult.TcpErrorRecv)

\* tcp_socket_send / tcp_socket_recv, the states they can leave: a success,
\* a timeout and a would-block change nothing; a failure is either kept to
\* the return value or detected as the loss of the connection
tcp_socket_transfer_states(state, code) ==
    IF state = "Connected" /\ code \notin { TcpResult.TcpSuccess, TcpResult.TcpErrorTimeout,
                                           TcpResult.TcpErrorWouldBlock }
    THEN { "Connected", "Disconnected" }
    ELSE { state }

\* tcp_socket_is_connected
tcp_socket_is_connected(state) == state = "Connected"

\* tcp_socket_send_to_client / tcp_socket_recv_from_client: legal until the
\* client is closed (socket_fd < 0)
tcp_client_send_codes(fd_closed) ==
    IF fd_closed THEN tcp_reject_codes(TcpResult.TcpErrorSend) ELSE NativeTcpCodes

tcp_client_recv_codes(fd_closed) ==
    IF fd_closed THEN tcp_reject_codes(TcpResult.TcpErrorRecv) ELSE NativeTcpCodes

\* tcp_socket_close_client: closing a closed client is a no-op that reports
\* success; closing an open one can succeed or fail
tcp_socket_close_client_codes(fd_closed) ==
    IF fd_closed THEN { TcpResult.TcpSuccess } ELSE NativeTcpCodes

\* tcp_socket_close_client, the socket_fd it leaves: a successful close of an
\* open client releases the descriptor and sets socket_fd to -1
tcp_socket_close_client_fd_closed(fd_closed, code) ==
    fd_closed \/ code = TcpResult.TcpSuccess

\* backlogs a caller passes to listen
BacklogInputs == { 0, 1, 10 }

\* ------------------------------------------------------------------------
\* Addresses (common.rs, lib.rs)
\* ------------------------------------------------------------------------
\* An integer field of a repr(C) struct is its bytes in memory, in address
\* order; an integer value is its bytes, the most significant first.

\* the byte orders of the hosts a build can target
HostEndian == { "little", "big" }

\* the bytes of s in the opposite order
SwapBytes(s) == [i \in 1..Len(s) |-> s[Len(s) + 1 - i]]

\* the value a host of the given byte order reads from the field mem
LoadField(mem, host) == IF host = "little" THEN SwapBytes(mem) ELSE mem

\* from_be that leaves its argument as it is on every host
from_be_Identity(x, host) == x

\* u16::from_be(x), u32::from_be(x): x with its bytes swapped on a
\* little-endian host, x itself on a big-endian one
from_be(x, host) == IF host = "little" THEN SwapBytes(x) ELSE x

\* Ipv4Addr::from(u32): the octets are the bytes of the value, the most
\* significant first
Ipv4Addr_from(x) == x

\* the number a 16-bit value stands for
U16(x) == x[1] * 256 + x[2]

\* SocketAddr::new(IpAddr::V4(ip), port)
SocketAddr_new(ip, port) == [ip |-> ip, port |-> port]

\* what the native layer writes for (ip, port): family AF_INET, the port and
\* the address in network byte order, the rest zero
AddressCodec_encode(ip, port) ==
    [ sin_family |-> 2,
      sin_port |-> <<port \div 256, port % 256>>,
      sin_addr |-> ip,
      sin_zero |-> [i \in 1..8 |-> 0] ]

\* common.rs sockaddr_to_rust, built for the given host
sockaddr_to_rust(sockaddr, host) ==
    LET ip == Ipv4Addr_from(from_be(LoadField(sockaddr.sin_addr, host), host))
        port == U16(from_be(LoadField(sockaddr.sin_port, host), host))
    IN  SocketAddr_new(ip, port)

\* lib.rs UdpSocketWrapper::recv_from: the address of the Packet it returns
Lib_recv_from_src_addr(src_addr, host) ==
    LET ip == Ipv4Addr_from(from_be(LoadField(src_addr.sin_addr, host), host))
        port == U16(from_be(LoadField(src_addr.sin_port, host), host))
    IN  SocketAddr_new(ip, port)

\* the octets and the ports of the addresses a peer can have
OctetInputs == { 0, 1, 255 }
PortInputs == { 0, 1, 255, 256, 8080, 65535 }
Ipv4Inputs == { <<a, b, c, d>> : a \in OctetInputs, b \in OctetInputs,
                                 c \in OctetInputs, d \in OctetInputs }

\* ------------------------------------------------------------------------
\* VmaOptions (common.rs)
\* ------------------------------------------------------------------------
MAX_CPU_CORES == 128

\* [0; MAX_CPU_CORES]
ZeroCores == [i \in 0..(MAX_CPU_CORES - 1) |-> 0]

VmaOptions_default ==
    [ use_socketxtreme |-> TRUE, optimize_for_latency |-> TRUE, use_polling |-> TRUE,
      ring_count |-> 4, buffer_size |-> 65536, enable_timestamps |-> TRUE,
      use_hugepages |-> TRUE, tx_bufs |-> 10000, rx_bufs |-> 10000,
      disable_poll_yield |-> TRUE, skip_os_select |-> TRUE, keep_qp_full |-> TRUE,
      cpu_cores |-> ZeroCores, cpu_cores_count |-> 0 ]

VmaOptions_low_latency ==
    [ use_socketxtreme |-> TRUE, optimize_for_latency |-> TRUE, use_polling |-> TRUE,
      ring_count |-> 1, buffer_size |-> 8192, enable_timestamps |-> TRUE,
      use_hugepages |-> TRUE, tx_bufs |-> 32, rx_bufs |-> 16,
      disable_poll_yield |-> TRUE, skip_os_select |-> TRUE, keep_qp_full |-> TRUE,
      cpu_cores |-> ZeroCores, cpu_cores_count |-> 0 ]

\* a high_throughput preset that keeps the timestamps on
VmaOptions_high_throughput_Timestamps ==
    [ use_socketxtreme |-> TRUE, optimize_for_latency |-> FALSE, use_polling |-> TRUE,
      ring_count |-> 4, buffer_size |-> 65536, enable_timestamps |-> TRUE,
      use_hugepages |-> TRUE, tx_bufs |-> 20000, rx_bufs |-> 20000,
      disable_poll_yield |-> FALSE, skip_os_select |-> TRUE, keep_qp_full |-> TRUE,
      cpu_cores |-> ZeroCores, cpu_cores_count |-> 0 ]

VmaOptions_high_throughput ==
    [ use_socketxtreme |-> TRUE, optimize_for_latency |-> FALSE, use_polling |-> TRUE,
      ring_count |-> 4, buffer_size |-> 65536, enable_timestamps |-> FALSE,
      use_hugepages |-> TRUE, tx_bufs |-> 20000, rx_bufs |-> 20000,
      disable_poll_yield |-> FALSE, skip_os_select |-> TRUE, keep_qp_full |-> TRUE,
      cpu_cores |-> ZeroCores, cpu_cores_count |-> 0 ]

\* a method taking &mut self gives the profile it leaves and what it returns
Outcome(self, r) == [self |-> self, ret |-> r]

\* add_core that, at capacity, writes the core into the last slot before failing
add_core_OverwritesLast(self, core) ==
    IF self.cpu_cores_count >= MAX_CPU_CORES
    THEN Outcome([self EXCEPT !.cpu_cores[MAX_CPU_CORES - 1] = core],
                 Err("&str", "Maximum number of CPU cores reached"))
    ELSE Outcome([self EXCEPT !.cpu_cores[self.cpu_cores_count] = core,
                              !.cpu_cores_count = @ + 1],
                 Ok("()", 0))

\* VmaOptions::add_core
add_core(self, core) ==
    IF self.cpu_cores_count >= MAX_CPU_CORES
    THEN Outcome(self, Err("&str", "Maximum number of CPU cores reached"))
    ELSE Outcome([self EXCEPT !.cpu_cores[self.cpu_cores_count] = core,
                              !.cpu_cores_count = @ + 1],
                 Ok("()", 0))

\* clear_cores that zeroes the array and keeps the count
clear_cores_KeepsCount(self) == [self EXCEPT !.cpu_cores = ZeroCores]

\* VmaOptions::clear_cores
clear_cores(self) == [self EXCEPT !.cpu_cores_count = 0, !.cpu_cores = ZeroCores]

\* for &core in cores { self.add_core(core)?; } over cores[lo..hi], the
\* first failure ending the loop; the range is walked half by half, in order
RECURSIVE add_cores_from(_, _, _, _)
add_cores_from(self, cores, lo, hi) ==
    IF lo > hi THEN Outcome(self, Ok("()", 0))
    ELSE IF lo = hi THEN add_core(self, cores[lo])
    ELSE LET mid == (lo + hi) \div 2
             r == add_cores_from(self, cores, lo, mid)
         IN  IF r.ret.tag = "Err" THEN r ELSE add_cores_from(r.self, cores, mid + 1, hi)

\* set_cores that clears the set before it looks at the length of the list
set_cores_ClearsFirst(self, cores) ==
    IF Len(cores) > MAX_CPU_CORES
    THEN Outcome(clear_cores(self), Err("&str", "Too many CPU cores specified"))
    ELSE add_cores_from(clear_cores(self), cores, 1, Len(cores))

\* VmaOptions::set_cores
set_cores(self, cores) ==
    IF Len(cores) > MAX_CPU_CORES
    THEN Outcome(self, Err("&str", "Too many CPU cores specified"))
    ELSE add_cores_from(clear_cores(self), cores, 1, Len(cores))

\* get_cores that gives the slice back to front
get_cores_Reversed(self) ==
    [i \in 1..self.cpu_cores_count |-> self.cpu_cores[self.cpu_cores_count - i]]

\* VmaOptions::get_cores: &self.cpu_cores[0..self.cpu_cores_count]
get_cores(self) == [i \in 1..self.cpu_cores_count |-> self.cpu_cores[i - 1]]

\* the core lists of length n that a caller builds as 0, 1, ..., n - 1
CoreRange(n) == [i \in 1..n |-> i - 1]

\* add_core calls are followed on short affinity sets and on nearly full ones
MaxAdds == 3
\* the cores a caller passes to add_core (core: c_int)
CoreInputs == { -1, 0, 5 }
\* the lists a caller passes to set_cores: empty, the one of test_set_cores,
\* and lists one short of the capacity, at it, and one beyond it
CoreListInputs ==
    { <<>>, <<1, 2, 3>>, CoreRange(MAX_CPU_CORES - 1), CoreRange(MAX_CPU_CORES),
      CoreRange(MAX_CPU_CORES + 1) }

\* ------------------------------------------------------------------------
\* VmaOptions: Serialize and Deserialize (common.rs)
\* ------------------------------------------------------------------------
\* A serialized VmaOptions is the sequence of its <<field name, value>>
\* entries, as the serializer receives them and as MapAccess gives them back.

\* the fields written before the cores, in the order serialize writes them
ScalarFields ==
    << "use_socketxtreme", "optimize_for_latency", "use_polling", "ring_count",
       "buffer_size", "enable_timestamps", "use_hugepages", "tx_bufs", "rx_bufs",
       "disable_poll_yield", "skip_os_select", "keep_qp_full" >>

\* serialize that writes the whole cpu_cores array
VmaOptions_serialize_WholeArray(self) ==
    [i \in 1..Len(ScalarFields) |-> <<ScalarFields[i], self[ScalarFields[i]]>>]
        \o << <<"cpu_cores", [i \in 1..MAX_CPU_CORES |-> self.cpu_cores[i - 1]]>>,
              <<"cpu_cores_count", self.cpu_cores_count>> >>

\* impl Serialize for VmaOptions: the twelve scalar fields, the used part of
\* the array (&self.cpu_cores[0..self.cpu_cores_count]) and the count
VmaOptions_serialize(self) ==
    [i \in 1..Len(ScalarFields) |-> <<ScalarFields[i], self[ScalarFields[i]]>>]
        \o << <<"cpu_cores", [i \in 1..self.cpu_cores_count |-> self.cpu_cores[i - 1]]>>,
              <<"cpu_cores_count", self.cpu_cores_count>> >>

\* the while-let loop of visit_map from the i-th entry of the map on:
\* cpu_cores goes to cpu_cores_vec, every other key to its field
RECURSIVE visit_map_entries(_, _, _)
visit_map_entries(map, i, acc) ==
    IF i > Len(map) THEN acc
    ELSE LET key == map[i][1]
             value == map[i][2]
         IN  visit_map_entries(map, i + 1,
                 IF key = "cpu_cores"
                 THEN [acc EXCEPT !.cpu_cores_vec = Some(value)]
                 ELSE [acc EXCEPT !.options[key] = value])

\* VmaOptionsVisitor::visit_map: start from default(), take the entries, then
\* handle the cores if the map listed any
visit_map(map) ==
    LET acc == visit_map_entries(map, 1,
                   [options |-> VmaOptions_default, cpu_cores_vec |-> None])
    IN  IF acc.cpu_cores_vec # None
        THEN LET cores == acc.cpu_cores_vec[1]
             IN  IF Len(cores) > MAX_CPU_CORES
                 THEN Err("de::Error", "Too many CPU cores")
                 ELSE Ok("VmaOptions",
                         [acc.options EXCEPT
                            !.cpu_cores_count = Len(cores),
                            !.cpu_cores = [i \in 0..(MAX_CPU_CORES - 1) |->
                                             IF i < Len(cores) THEN cores[i + 1] ELSE @[i]]])
        ELSE Ok("VmaOptions", acc.options)

\* the inputs given to the deserializer: any subset of cpu_cores and
\* cpu_cores_count, in either order, after nothing or after another field
CoresEntryInputs ==
    { <<"cpu_cores", l>> : l \in { <<>>, <<1, 2, 3>>, CoreRange(MAX_CPU_CORES),
                                   CoreRange(MAX_CPU_CORES + 1) } }
CountEntryInputs == { <<"cpu_cores_count", n>> : n \in { 0, 3, 200, -1 } }
CoresPartInputs ==
    { <<>> } \cup { <<e>> : e \in CoresEntryInputs \cup CountEntryInputs }
             \cup { <<a, b>> : a \in CoresEntryInputs, b \in CountEntryInputs }
             \cup { <<b, a>> : a \in CoresEntryInputs, b \in CountEntryInputs }
MapInputs ==
    { prefix \o part : prefix \in { <<>>, << <<"ring_count", 8>> >> },
                       part \in CoresPartInputs }

\* ------------------------------------------------------------------------
\* State
\* ------------------------------------------------------------------------
VARIABLES
    tcp_open,         \* a VmaTcpSocket is alive (init succeeded, not yet dropped)
    tcp_state,        \* TcpSocket.state of its handle
    is_bound,         \* TcpSocket.is_bound of its handle
    tcp_closes,       \* tcp_socket_close calls made on the handle of the latest VmaTcpSocket
    udp_impl,         \* the VmaUdpSocket alive: "none", "udp" (udp.rs) or "lib" (lib.rs)
    udp_closes,       \* udp_socket_close calls made on the handle of the latest VmaUdpSocket
    clients,          \* the Client values alive, by handle
    closed_fd,        \* those of them whose TcpClient.socket_fd is < 0
    udp_pending,      \* datagrams queued on the UDP endpoint
    op,               \* the operation of the last call
    on_client,        \* the Client it was called on (0: not a Client call)
    arg,              \* its argument: a timeout, a backlog, a core or core list, an address (None: absent or not taken)
    timeout_ms,       \* the timeout_ms handed to its native call (None: it takes none)
    native_calls,     \* the number of native calls it made
    native_result,    \* the c_int its native call returned
    native_bytes,     \* what its native call wrote through the out-pointer
    pending_at_call,  \* what was queued for it when it was made (datagrams, connecting peers)
    ret,              \* what the call returned to the caller
    options,          \* the caller's VmaOptions value
    inserted          \* the cores it gave to add_core since its set_cores([]) (None: no such call yet)

vars == <<tcp_open, tcp_state, is_bound, tcp_closes, udp_impl, udp_closes, clients, closed_fd,
          udp_pending, op, on_client, arg, timeout_ms, native_calls, native_result,
          native_bytes, pending_at_call, ret, options, inserted>>

\* the variables of the TCP endpoint, of the accepted clients, of the UDP endpoint
tcp_vars == <<tcp_open, tcp_state, is_bound, tcp_closes>>
client_vars == <<clients, closed_fd>>
udp_vars == <<udp_impl, udp_closes, udp_pending>>
\* the caller's option profile and what it inserted into it
options_vars == <<options, inserted>>

Init ==
    /\ tcp_open = FALSE
    /\ tcp_state = "Disconnected"
    /\ is_bound = FALSE
    /\ tcp_closes = 0
    /\ udp_impl = "none"
    /\ udp_closes = 0
    /\ clients = {}
    /\ closed_fd = {}
    /\ udp_pending = 0
    /\ op = "start"
    /\ on_client = 0
    /\ arg = None
    /\ timeout_ms = None
    /\ native_calls = 0
    /\ native_result = 0
    /\ native_bytes = 0
    /\ pending_at_call = 0
    /\ ret = NoRet
    /\ options = VmaOptions_default
    /\ inserted = None

\* the call o(a) on client c returns r after calls native calls, the last of
\* which got timeout_ms t with p queued, returned code and wrote n; a socket
\* call leaves the caller's VmaOptions alone (with_options takes a copy)
Call(o, c, a, t, calls, code, n, p, r) ==
    /\ op' = o
    /\ on_client' = c
    /\ arg' = a
    /\ timeout_ms' = t
    /\ native_calls' = calls
    /\ native_result' = code
    /\ native_bytes' = n
    /\ pending_at_call' = p
    /\ ret' = r
    /\ UNCHANGED options_vars

\* the call o returns r after its one native call returned code and wrote n
Return(o, t, code, n, r) == Call(o, 0, None, t, 1, code, n, udp_pending, r)

\* ------------------------------------------------------------------------
\* VmaTcpSocket
\* ------------------------------------------------------------------------
\* TcpSocketWrapper::new keeps the handle only when tcp_socket_init succeeded
TcpNew ==
    /\ ~tcp_open
    /\ \E code \in NativeTcpCodes : \E inner \in TcpSocketWrapper_new(code) :
         LET r == VmaTcpSocket_new(inner) IN
         /\ Return("VmaTcpSocket::new", None, code, 0, r)
         /\ tcp_open' = (r.tag = "Ok")
    /\ tcp_state' = "Disconnected"
    /\ is_bound' = FALSE
    /\ tcp_closes' = 0
    /\ UNCHANGED <<client_vars, udp_vars>>

TcpWithOptions ==
    /\ ~tcp_open
    /\ \E code \in NativeTcpCodes : \E inner \in TcpSocketWrapper_new(code) :
         LET r == VmaTcpSocket_with_options(inner) IN
         /\ Return("VmaTcpSocket::with_options", None, code, 0, r)
         /\ tcp_open' = (r.tag = "Ok")
    /\ tcp_state' = "Disconnected"
    /\ is_bound' = FALSE
    /\ tcp_closes' = 0
    /\ UNCHANGED <<client_vars, udp_vars>>

\* impl Drop for TcpSocketWrapper that also closes the clients it accepted
TcpDrop_ClosesClients ==
    /\ tcp_open
    /\ Return("TcpSocketWrapper::drop", None, 0, 0, NoRet)
    /\ tcp_open' = FALSE
    /\ tcp_state' = "Disconnected"
    /\ is_bound' = FALSE
    /\ tcp_closes' = tcp_closes + 1
    /\ clients' = clients
    /\ closed_fd' = clients
    /\ UNCHANGED udp_vars

\* impl Drop for TcpSocketWrapper: tcp_socket_close, its result discarded
\* (nothing of it is recorded); the close leaves the handle Disconnected
TcpDrop ==
    /\ tcp_open
    /\ Return("TcpSocketWrapper::drop", None, 0, 0, NoRet)
    /\ tcp_open' = FALSE
    /\ tcp_state' = "Disconnected"
    /\ is_bound' = FALSE
    /\ tcp_closes' = tcp_closes + 1
    /\ UNCHANGED <<client_vars, udp_vars>>

TcpBind ==
    /\ tcp_open
    /\ \E code \in tcp_socket_bind_codes(tcp_state, is_bound) :
       \E inner \in TcpSocketWrapper_bind(code) :
         /\ Return("VmaTcpSocket::bind", None, code, 0, VmaTcpSocket_bind(inner))
         /\ is_bound' = (is_bound \/ code = TcpResult.TcpSuccess)
    /\ UNCHANGED <<tcp_open, tcp_state, tcp_closes, client_vars, udp_vars>>

TcpListen ==
    /\ tcp_open
    /\ \E backlog \in BacklogInputs :
       \E code \in tcp_socket_listen_codes(tcp_state, is_bound, backlog) :
       \E inner \in TcpSocketWrapper_listen(code) :
         /\ Call("VmaTcpSocket::listen", 0, Some(backlog), None, 1, code, 0, 0,
                 VmaTcpSocket_listen(inner))
         /\ tcp_state' = IF code = TcpResult.TcpSuccess THEN "Listening" ELSE tcp_state
    /\ UNCHANGED <<tcp_open, is_bound, tcp_closes, client_vars, udp_vars>>

\* the handle the next accepted client gets
NextClient == CHOOSE c \in 1..MaxClients : c \notin clients /\ \A d \in 1..(c - 1) : d \in clients

\* accept that builds the Client from the zeroed TcpClient before it looks at
\* the native result
TcpAccept_ClientBeforeCheck ==
    /\ tcp_open
    /\ \E t \in DurationInputs, peer \in BOOLEAN :
       \E code \in (IF Cardinality(clients) < MaxClients
                    THEN tcp_socket_accept_codes(tcp_state, peer, duration_to_ms(t))
                    ELSE tcp_socket_accept_codes(tcp_state, peer, duration_to_ms(t))
                             \ { TcpResult.TcpSuccess }) :
       \E inner \in TcpSocketWrapper_accept(code, IF code = TcpResult.TcpSuccess THEN NextClient ELSE 0) :
         LET r == VmaTcpSocket_accept(inner) IN
         /\ Call("VmaTcpSocket::accept", 0, t, Some(duration_to_ms(t)), 1, code, 0,
                 IF peer THEN 1 ELSE 0, r)
         /\ clients' = IF r.tag = "Ok" /\ r.val # None THEN clients \cup { r.val[1] }
                       ELSE clients \cup { 0 }
    /\ UNCHANGED <<tcp_vars, closed_fd, udp_vars>>

\* a native accept can succeed only while the model has a client handle left
TcpAccept ==
    /\ tcp_open
    /\ \E t \in DurationInputs, peer \in BOOLEAN :
       \E code \in (IF Cardinality(clients) < MaxClients
                    THEN tcp_socket_accept_codes(tcp_state, peer, duration_to_ms(t))
                    ELSE tcp_socket_accept_codes(tcp_state, peer, duration_to_ms(t))
                             \ { TcpResult.TcpSuccess }) :
       \E inner \in TcpSocketWrapper_accept(code, IF code = TcpResult.TcpSuccess THEN NextClient ELSE 0) :
         LET r == VmaTcpSocket_accept(inner) IN
         /\ Call("VmaTcpSocket::accept", 0, t, Some(duration_to_ms(t)), 1, code, 0,
                 IF peer THEN 1 ELSE 0, r)
         /\ clients' = IF r.tag = "Ok" /\ r.val # None THEN clients \cup { r.val[1] } ELSE clients
    /\ UNCHANGED <<tcp_vars, closed_fd, udp_vars>>

TcpConnect ==
    /\ tcp_open
    /\ \E t \in DurationInputs, code \in tcp_socket_connect_codes(tcp_state) :
       \E inner \in TcpSocketWrapper_connect(code) :
         /\ Call("VmaTcpSocket::connect", 0, t, Some(duration_to_ms(t)), 1, code, 0, 0,
                 VmaTcpSocket_connect(inner))
         /\ tcp_state' = tcp_socket_connect_state(tcp_state, code)
    /\ UNCHANGED <<tcp_open, is_bound, tcp_closes, client_vars, udp_vars>>

\* try_reconnect that calls the native reconnect a second time when the
\* first call failed
TcpTryReconnect_Retry ==
    /\ tcp_open
    /\ \E t \in DurationInputs, code \in tcp_socket_reconnect_codes(tcp_state) :
       \E inner \in TcpSocketWrapper_reconnect(code) :
         /\ Call("VmaTcpSocket::try_reconnect", 0, t, Some(duration_to_ms(t)),
                 IF code = TcpResult.TcpSuccess THEN 1 ELSE 2, code, 0, 0,
                 VmaTcpSocket_try_reconnect(inner))
         /\ tcp_state' = tcp_socket_reconnect_state(tcp_state, code)
    /\ UNCHANGED <<tcp_open, is_bound, tcp_closes, client_vars, udp_vars>>

TcpTryReconnect ==
    /\ tcp_open
    /\ \E t \in DurationInputs, code \in tcp_socket_reconnect_codes(tcp_state) :
       \E inner \in TcpSocketWrapper_reconnect(code) :
         /\ Call("VmaTcpSocket::try_reconnect", 0, t, Some(duration_to_ms(t)), 1, code, 0, 0,
                 VmaTcpSocket_try_reconnect(inner))
         /\ tcp_state' = tcp_socket_reconnect_state(tcp_state, code)
    /\ UNCHANGED <<tcp_open, is_bound, tcp_closes, client_vars, udp_vars>>

\* VmaTcpSocket::is_connected hands back what tcp_socket_is_connected says
TcpIsConnected ==
    /\ tcp_open
    /\ Return("VmaTcpSocket::is_connected", None, 0, 0, Ok("bool", tcp_socket_is_connected(tcp_state)))
    /\ UNCHANGED <<tcp_vars, client_vars, udp_vars>>

TcpSend ==
    /\ tcp_open
    /\ \E code \in tcp_socket_send_codes(tcp_state) : \E n \in NativeByteCounts(code) :
       \E inner \in TcpSocketWrapper_send(code, n) :
         /\ Return("VmaTcpSocket::send", None, code, n, VmaTcpSocket_send(inner))
         /\ tcp_state' \in tcp_socket_transfer_states(tcp_state, code)
    /\ UNCHANGED <<tcp_open, is_bound, tcp_closes, client_vars, udp_vars>>

TcpRecv ==
    /\ tcp_open
    /\ \E t \in DurationInputs, code \in tcp_socket_recv_codes(tcp_state) :
       \E n \in NativeByteCounts(code) :
       \E inner \in TcpSocketWrapper_recv(code, n) :
         /\ Call("VmaTcpSocket::recv", 0, t, Some(duration_to_ms(t)), 1, code, n, 0,
                 VmaTcpSocket_recv(inner))
         /\ tcp_state' \in tcp_socket_transfer_states(tcp_state, code)
    /\ UNCHANGED <<tcp_open, is_bound, tcp_closes, client_vars, udp_vars>>

TcpGetStats ==
    /\ tcp_open
    /\ \E code \in NativeTcpCodes : \E st \in (IF code = 0 THEN StatsInputs ELSE { <<0, 0, 0, 0>> }) :
       \E inner \in TcpSocketWrapper_get_stats(code, st) :
         Return("VmaTcpSocket::get_stats", None, code, 0, VmaTcpSocket_get_stats(inner))
    /\ UNCHANGED <<tcp_vars, client_vars, udp_vars>>

\* ------------------------------------------------------------------------
\* Client (the accepted client)
\* ------------------------------------------------------------------------
ClientSend ==
    /\ \E c \in clients :
       \E code \in tcp_client_send_codes(c \in closed_fd) : \E n \in NativeByteCounts(code) :
       \E r \in Client_send(code, n) :
         Call("Client::send", c, None, None, 1, code, n, 0, r)
    /\ UNCHANGED <<tcp_vars, client_vars, udp_vars>>

ClientRecv ==
    /\ \E c \in clients, t \in DurationInputs :
       \E code \in tcp_client_recv_codes(c \in closed_fd) : \E n \in NativeByteCounts(code) :
       \E r \in Client_recv(code, n) :
         Call("Client::recv", c, t, Some(duration_to_ms(t)), 1, code, n, 0, r)
    /\ UNCHANGED <<tcp_vars, client_vars, udp_vars>>

\* Client::close calls tcp_socket_close_client whatever socket_fd is
ClientClose ==
    /\ \E c \in clients :
       \E code \in tcp_socket_close_client_codes(c \in closed_fd) :
       \E r \in Client_close(code) :
         /\ Call("Client::close", c, None, None, 1, code, 0, 0, r)
         /\ closed_fd' = IF tcp_socket_close_client_fd_closed(c \in closed_fd, code)
                         THEN closed_fd \cup { c } ELSE closed_fd
    /\ UNCHANGED <<tcp_vars, clients, udp_vars>>

\* impl Drop for Client without the socket_fd >= 0 test
ClientDrop_NoGuard ==
    /\ \E c \in clients :
         /\ Call("Client::drop", c, None, None, 1, 0, 0, 0, NoRet)
         /\ clients' = clients \ { c }
         /\ closed_fd' = closed_fd \ { c }
    /\ UNCHANGED <<tcp_vars, udp_vars>>

\* impl Drop for Client: the Client value ends; tcp_socket_close_client is
\* called only if socket_fd >= 0, and its result is discarded
ClientDrop ==
    /\ \E c \in clients :
         /\ Call("Client::drop", c, None, None, IF c \in closed_fd THEN 0 ELSE 1, 0, 0, 0, NoRet)
         /\ clients' = clients \ { c }
         /\ closed_fd' = closed_fd \ { c }
    /\ UNCHANGED <<tcp_vars, udp_vars>>

\* ------------------------------------------------------------------------
\* VmaUdpSocket of udp.rs
\* ------------------------------------------------------------------------
UdpNew ==
    /\ udp_impl = "none"
    /\ \E code \in NativeUdpCodes : \E inner \in UdpSocketWrapper_new(code) :
         LET r == VmaUdpSocket_new(inner) IN
         /\ Return("udp::VmaUdpSocket::new", None, code, 0, r)
         /\ udp_impl' = IF r.tag = "Ok" THEN "udp" ELSE "none"
    /\ udp_pending' = 0
    /\ udp_closes' = 0
    /\ UNCHANGED <<tcp_vars, client_vars>>

\* impl Drop for UdpSocketWrapper without its udp_socket_close call
UdpDrop_NoClose ==
    /\ udp_impl # "none"
    /\ Call("UdpSocketWrapper::drop", 0, None, None, 0, 0, 0, udp_pending, NoRet)
    /\ udp_impl' = "none"
    /\ udp_pending' = 0
    /\ UNCHANGED <<udp_closes, tcp_vars, client_vars>>

\* impl Drop for UdpSocketWrapper: udp_socket_close, its result discarded
UdpDrop ==
    /\ udp_impl # "none"
    /\ Return("UdpSocketWrapper::drop", None, 0, 0, NoRet)
    /\ udp_impl' = "none"
    /\ udp_pending' = 0
    /\ udp_closes' = udp_closes + 1
    /\ UNCHANGED <<tcp_vars, client_vars>>

\* a datagram reaches the endpoint and is queued by the native engine
DatagramArrives ==
    /\ udp_impl # "none"
    /\ udp_pending < MaxPending
    /\ udp_pending' = udp_pending + 1
    /\ UNCHANGED <<tcp_vars, client_vars, udp_impl, udp_closes, op, on_client, arg, timeout_ms,
                   native_calls, native_result, native_bytes, pending_at_call, ret,
                   options_vars>>

UdpBind ==
    /\ udp_impl = "udp"
    /\ \E code \in NativeUdpCodes :
       \E inner \in UdpSocketWrapper_bind(code) :
         Return("udp::VmaUdpSocket::bind", None, code, 0, VmaUdpSocket_bind(inner))
    /\ UNCHANGED <<tcp_vars, client_vars, udp_vars>>

UdpConnect ==
    /\ udp_impl = "udp"
    /\ \E code \in NativeUdpCodes :
       \E inner \in UdpSocketWrapper_connect(code) :
         Return("udp::VmaUdpSocket::connect", None, code, 0, VmaUdpSocket_connect(inner))
    /\ UNCHANGED <<tcp_vars, client_vars, udp_vars>>

UdpSend ==
    /\ udp_impl = "udp"
    /\ \E code \in NativeUdpCodes : \E n \in NativeByteCounts(code) :
       \E inner \in UdpSocketWrapper_send(code, n) :
         Return("udp::VmaUdpSocket::send", None, code, n, VmaUdpSocket_send(inner))
    /\ UNCHANGED <<tcp_vars, client_vars, udp_vars>>

UdpSendTo ==
    /\ udp_impl = "udp"
    /\ \E code \in NativeUdpCodes : \E n \in NativeByteCounts(code) :
       \E inner \in UdpSocketWrapper_send_to(code, n) :
         Return("udp::VmaUdpSocket::send_to", None, code, n, VmaUdpSocket_send_to(inner))
    /\ UNCHANGED <<tcp_vars, client_vars, udp_vars>>

UdpRecv ==
    /\ udp_impl = "udp"
    /\ \E t \in NanoInputs :
       LET tmo == unixnano_to_ms(t) IN
       \E code \in udp_socket_recv_codes(udp_pending, tmo) : \E n \in NativeByteCounts(code) :
       \E inner \in UdpSocketWrapper_recv(code, n) :
         /\ Call("udp::VmaUdpSocket::recv", 0, t, Some(tmo), 1, code, n, udp_pending,
                 VmaUdpSocket_recv(inner))
         /\ udp_pending' = IF code = UdpResult.UdpSuccess THEN udp_pending - 1 ELSE udp_pending
    /\ UNCHANGED <<tcp_vars, client_vars, udp_impl, udp_closes>>

UdpRecvFrom ==
    /\ udp_impl = "udp"
    /\ \E t \in NanoInputs :
       LET tmo == unixnano_to_ms(t) IN
       \E code \in udp_socket_recv_codes(udp_pending, tmo) : \E n \in NativeByteCounts(code) :
       \E inner \in UdpSocketWrapper_recv_from(code, n) :
         /\ Call("udp::VmaUdpSocket::recv_from", 0, t, Some(tmo), 1, code, n, udp_pending,
                 VmaUdpSocket_recv_from(inner))
         /\ udp_pending' = IF code = UdpResult.UdpSuccess THEN udp_pending - 1 ELSE udp_pending
    /\ UNCHANGED <<tcp_vars, client_vars, udp_impl, udp_closes>>

UdpGetStats ==
    /\ udp_impl = "udp"
    /\ \E code \in NativeUdpCodes : \E st \in (IF code = 0 THEN StatsInputs ELSE { <<0, 0, 0, 0>> }) :
       \E inner \in UdpSocketWrapper_get_stats(code, st) :
         Return("udp::VmaUdpSocket::get_stats", None, code, 0, VmaUdpSocket_get_stats(inner))
    /\ UNCHANGED <<tcp_vars, client_vars, udp_vars>>

\* ------------------------------------------------------------------------
\* VmaUdpSocket of lib.rs
\* ------------------------------------------------------------------------
LibUdpNew ==
    /\ udp_impl = "none"
    /\ \E code \in NativeUdpCodes : \E inner \in UdpSocketWrapper_new(code) :
         LET r == Lib_VmaUdpSocket_new(inner) IN
         /\ Return("lib::VmaUdpSocket::new", None, code, 0, r)
         /\ udp_impl' = IF r.tag = "Ok" THEN "lib" ELSE "none"
    /\ udp_pending' = 0
    /\ udp_closes' = 0
    /\ UNCHANGED <<tcp_vars, client_vars>>

LibUdpBind ==
    /\ udp_impl = "lib"
    /\ \E code \in NativeUdpCodes :
       \E inner \in UdpSocketWrapper_bind(code) :
         Return("lib::VmaUdpSocket::bind", None, code, 0, Lib_VmaUdpSocket_bind(inner))
    /\ UNCHANGED <<tcp_vars, client_vars, udp_vars>>

LibUdpConnect ==
    /\ udp_impl = "lib"
    /\ \E code \in NativeUdpCodes :
       \E inner \in UdpSocketWrapper_connect(code) :
         Return("lib::VmaUdpSocket::connect", None, code, 0, Lib_VmaUdpSocket_connect(inner))
    /\ UNCHANGED <<tcp_vars, client_vars, udp_vars>>

LibUdpSend ==
    /\ udp_impl = "lib"
    /\ \E code \in NativeUdpCodes : \E n \in NativeByteCounts(code) :
       \E inner \in UdpSocketWrapper_send(code, n) :
         Return("lib::VmaUdpSocket::send", None, code, n, Lib_VmaUdpSocket_send(inner))
    /\ UNCHANGED <<tcp_vars, client_vars, udp_vars>>

LibUdpSendTo ==
    /\ udp_impl = "lib"
    /\ \E code \in NativeUdpCodes : \E n \in NativeByteCounts(code) :
       \E inner \in UdpSocketWrapper_send_to(code, n) :
         Return("lib::VmaUdpSocket::send_to", None, code, n, Lib_VmaUdpSocket_send_to(inner))
    /\ UNCHANGED <<tcp_vars, client_vars, udp_vars>>

LibUdpRecv ==
    /\ udp_impl = "lib"
    /\ \E t \in LibDurationInputs :
       LET tmo == as_millis_c_int(t) IN
       \E code \in udp_socket_recv_codes(udp_pending, tmo) : \E n \in NativeByteCounts(code) :
       \E inner \in UdpSocketWrapper_recv(code, n) :
         /\ Call("lib::VmaUdpSocket::recv", 0, t, Some(tmo), 1, code, n, udp_pending,
                 Lib_VmaUdpSocket_recv(inner))
         /\ udp_pending' = IF code = UdpResult.UdpSuccess THEN udp_pending - 1 ELSE udp_pending
    /\ UNCHANGED <<tcp_vars, client_vars, udp_impl, udp_closes>>

LibUdpRecvFrom ==
    /\ udp_impl = "lib"
    /\ \E t \in LibDurationInputs :
       LET tmo == as_millis_c_int(t) IN
       \E code \in udp_socket_recv_codes(udp_pending, tmo) : \E n \in NativeByteCounts(code) :
       \E inner \in UdpSocketWrapper_recv_from(code, n) :
         /\ Call("lib::VmaUdpSocket::recv_from", 0, t, Some(tmo), 1, code, n, udp_pending,
                 Lib_VmaUdpSocket_recv_from(inner))
         /\ udp_pending' = IF code = UdpResult.UdpSuccess THEN udp_pending - 1 ELSE udp_pending
    /\ UNCHANGED <<tcp_vars, client_vars, udp_impl, udp_closes>>

LibUdpGetStats ==
    /\ udp_impl = "lib"
    /\ \E code \in NativeUdpCodes : \E st \in (IF code = 0 THEN StatsInputs ELSE { <<0, 0, 0, 0>> }) :
       \E inner \in UdpSocketWrapper_get_stats(code, st) :
         Return("lib::VmaUdpSocket::get_stats", None, code, 0, Lib_VmaUdpSocket_get_stats(inner))
    /\ UNCHANGED <<tcp_vars, client_vars, udp_vars>>

\* ------------------------------------------------------------------------
\* VmaOptions
\* ------------------------------------------------------------------------
\* the VmaOptions call o(a) returns r: it makes no native call and touches no socket
OptionsReturn(o, a, r) ==
    /\ op' = o
    /\ on_client' = 0
    /\ arg' = a
    /\ timeout_ms' = None
    /\ native_calls' = 0
    /\ native_result' = 0
    /\ native_bytes' = 0
    /\ pending_at_call' = 0
    /\ ret' = r
    /\ UNCHANGED <<tcp_vars, client_vars, udp_vars>>

OptionsDefault ==
    /\ options' = VmaOptions_default
    /\ inserted' = None
    /\ OptionsReturn("VmaOptions::default", None, Ok("VmaOptions", VmaOptions_default))

OptionsLowLatency ==
    /\ options' = VmaOptions_low_latency
    /\ inserted' = None
    /\ OptionsReturn("VmaOptions::low_latency", None, Ok("VmaOptions", VmaOptions_low_latency))

OptionsHighThroughput ==
    /\ options' = VmaOptions_high_throughput
    /\ inserted' = None
    /\ OptionsReturn("VmaOptions::high_throughput", None,
                     Ok("VmaOptions", VmaOptions_high_throughput))

OptionsAddCore ==
    /\ options.cpu_cores_count < MaxAdds \/ options.cpu_cores_count >= MAX_CPU_CORES - 1
    /\ \E core \in CoreInputs :
         LET r == add_core(options, core) IN
         /\ options' = r.self
         /\ inserted' = IF inserted = None THEN None ELSE Some(Append(inserted[1], core))
         /\ OptionsReturn("VmaOptions::add_core", Some(core), r.ret)

OptionsClearCores ==
    /\ options' = clear_cores(options)
    /\ inserted' = None
    /\ OptionsReturn("VmaOptions::clear_cores", None, Ok("()", 0))

OptionsSetCores ==
    \E cores \in CoreListInputs :
      LET r == set_cores(options, cores) IN
      /\ options' = r.self
      /\ inserted' = IF cores = <<>> THEN Some(<<>>) ELSE None
      /\ OptionsReturn("VmaOptions::set_cores", Some(cores), r.ret)

OptionsGetCores ==
    /\ UNCHANGED options_vars
    /\ OptionsReturn("VmaOptions::get_cores", None, Ok("&[c_int]", get_cores(options)))

\* test_vma_options_serialization on the caller's profile: serialize it,
\* deserialize what was written
OptionsSerdeRoundTrip ==
    /\ OptionsReturn("VmaOptions: serialize, deserialize", None,
                     visit_map(VmaOptions_serialize(options)))
    /\ UNCHANGED options_vars

\* VmaOptions::deserialize of an input map: it gives a new value and leaves
\* the caller's profile alone
OptionsDeserialize ==
    \E map \in MapInputs :
      /\ OptionsReturn("VmaOptions::deserialize", Some(map), visit_map(map))
      /\ UNCHANGED options_vars

\* ------------------------------------------------------------------------
\* Addresses
\* ------------------------------------------------------------------------
\* the address of a peer (ip, port), written by the native layer into a
\* TcpClient.addr or a UdpPacket.src_addr, is converted by sockaddr_to_rust;
\* a conversion touches no socket and no option profile
SockaddrToRust ==
    \E ip \in Ipv4Inputs, port \in PortInputs, host \in HostEndian :
      /\ OptionsReturn("sockaddr_to_rust", Some(SocketAddr_new(ip, port)),
                       Ok("SocketAddr", sockaddr_to_rust(AddressCodec_encode(ip, port), host)))
      /\ UNCHANGED options_vars

\* the same in lib.rs, where recv_from converts packet.src_addr in line
LibRecvFromSrcAddr ==
    \E ip \in Ipv4Inputs, port \in PortInputs, host \in HostEndian :
      /\ OptionsReturn("lib::UdpSocketWrapper::recv_from src_addr",
                       Some(SocketAddr_new(ip, port)),
                       Ok("SocketAddr", Lib_recv_from_src_addr(AddressCodec_encode(ip, port), host)))
      /\ UNCHANGED options_vars

\* ------------------------------------------------------------------------
\* Specification
\* ------------------------------------------------------------------------
\* the operations of one TCP endpoint and of the clients it accepted
NextTcp ==
    \/ TcpNew
    \/ TcpWithOptions
    \/ TcpDrop
    \/ TcpBind
    \/ TcpListen
    \/ TcpAccept
    \/ TcpConnect
    \/ TcpTryReconnect
    \/ TcpIsConnected
    \/ TcpSend
    \/ TcpRecv
    \/ TcpGetStats
    \/ ClientSend
    \/ ClientRecv
    \/ ClientClose
    \/ ClientDrop

\* the operations of one UDP endpoint
NextUdp ==
    \/ UdpNew
    \/ UdpDrop
    \/ DatagramArrives
    \/ UdpBind
    \/ UdpConnect
    \/ UdpSend
    \/ UdpSendTo
    \/ UdpRecv
    \/ UdpRecvFrom
    \/ UdpGetStats
    \/ LibUdpNew
    \/ LibUdpBind
    \/ LibUdpConnect
    \/ LibUdpSend
    \/ LibUdpSendTo
    \/ LibUdpRecv
    \/ LibUdpRecvFrom
    \/ LibUdpGetStats

\* the operations on one VmaOptions value
NextOptions ==
    \/ OptionsDefault
    \/ OptionsLowLatency
    \/ OptionsHighThroughput
    \/ OptionsAddCore
    \/ OptionsClearCores
    \/ OptionsSetCores
    \/ OptionsGetCores
    \/ OptionsSerdeRoundTrip

\* the deserialization of input maps, next to the construction of the presets
NextSerde ==
    \/ OptionsDefault
    \/ OptionsLowLatency
    \/ OptionsHighThroughput
    \/ OptionsDeserialize

\* the address conversions
NextCodec ==
    \/ SockaddrToRust
    \/ LibRecvFromSrcAddr

Next == NextTcp \/ NextUdp \/ NextOptions \/ NextSerde \/ NextCodec

Spec == Init /\ [][Next]_vars

\* A TCP endpoint and a UDP endpoint are separate instances that share no
\* state, so each is also specified on its own
SpecTcp == Init /\ [][NextTcp]_vars

SpecUdp == Init /\ [][NextUdp]_vars

\* the lifetimes of a TCP and of a UDP endpoint side by side: construction,
\* the operations that wait for no peer and no datagram, and the end of scope
NextLifetime ==
    \/ TcpNew
    \/ TcpWithOptions
    \/ TcpDrop
    \/ TcpBind
    \/ TcpListen
    \/ TcpSend
    \/ TcpIsConnected
    \/ TcpGetStats
    \/ UdpNew
    \/ LibUdpNew
    \/ UdpDrop
    \/ UdpBind
    \/ UdpConnect
    \/ UdpSend
    \/ UdpSendTo
    \/ UdpGetStats
    \/ LibUdpBind
    \/ LibUdpConnect
    \/ LibUdpSend
    \/ LibUdpSendTo
    \/ LibUdpGetStats

SpecLifetime == Init /\ [][NextLifetime]_vars

\* a VmaOptions value is plain data that no socket shares
SpecOptions == Init /\ [][NextOptions]_vars

\* a deserialization builds its value from the input alone
SpecSerde == Init /\ [][NextSerde]_vars

\* the address conversions are pure functions
SpecCodec == Init /\ [][NextCodec]_vars

\* ------------------------------------------------------------------------
\* Properties
\* ------------------------------------------------------------------------
\* the call returned Ok(n) with n a byte count
ReturnedBytes(n) == ret.tag = "Ok" /\ ret.ty = "usize" /\ ret.val = n
\* the call returned Ok(b) with b a bool
ReturnedBool(b) == ret.tag = "Ok" /\ ret.ty = "bool" /\ ret.val = b
\* the call returned Ok(None)
ReturnedNone == ret.tag = "Ok" /\ ret.val = None
\* the call returned an error value
ReturnedErr == ret.tag = "Err"

\* the declared TcpResult codes other than those of the set benign
OtherTcpCodes(benign) == TcpResultCodes \ ({ TcpResult.TcpSuccess } \cup benign)

\* C1: VmaTcpSocket::recv returns the native byte count on native success,
\* Ok(0) on native Timeout and on native Closed, and an error for exactly
\* the other native result codes.
C1_TcpRecvTranslation ==
    op = "VmaTcpSocket::recv" =>
        /\ native_result = TcpResult.TcpSuccess => ReturnedBytes(native_bytes)
        /\ native_result \in { TcpResult.TcpErrorTimeout, TcpResult.TcpErrorClosed }
               => ReturnedBytes(0)
        /\ native_result \in OtherTcpCodes({ TcpResult.TcpErrorTimeout, TcpResult.TcpErrorClosed })
               => ReturnedErr
        /\ ReturnedErr => native_result \notin { TcpResult.TcpSuccess, TcpResult.TcpErrorTimeout,
                                                 TcpResult.TcpErrorClosed }

\* a recv on a closed connection came back as Ok(0)
C1_Witness ==
    /\ op = "VmaTcpSocket::recv"
    /\ native_result = TcpResult.TcpErrorClosed
    /\ ReturnedBytes(0)

\* C2: VmaTcpSocket::send returns Ok(0) on native WouldBlock, the native
\* bytes-sent count on native success, and an error on native Closed.
C2_TcpSendTranslation ==
    op = "VmaTcpSocket::send" =>
        /\ native_result = TcpResult.TcpErrorWouldBlock => ReturnedBytes(0)
        /\ native_result = TcpResult.TcpSuccess => ReturnedBytes(native_bytes)
        /\ native_result = TcpResult.TcpErrorClosed => ReturnedErr

\* a send that would block came back as Ok(0)
C2_Witness ==
    /\ op = "VmaTcpSocket::send"
    /\ native_result = TcpResult.TcpErrorWouldBlock
    /\ ReturnedBytes(0)

\* C3: VmaTcpSocket::accept returns Ok(Some(client)) with a live client on
\* native success, Ok(None) on native Timeout, and an error for every other
\* native result code.
C3_TcpAcceptTranslation ==
    op = "VmaTcpSocket::accept" =>
        /\ native_result = TcpResult.TcpSuccess =>
               /\ ret.tag = "Ok" /\ ret.ty = "Option<Client>"
               /\ ret.val # None /\ ret.val[1] \in clients
        /\ native_result = TcpResult.TcpErrorTimeout =>
               ret.tag = "Ok" /\ ret.ty = "Option<Client>" /\ ret.val = None
        /\ native_result \in OtherTcpCodes({ TcpResult.TcpErrorTimeout }) => ReturnedErr

\* an accept that timed out came back as Ok(None)
C3_Witness ==
    /\ op = "VmaTcpSocket::accept"
    /\ native_result = TcpResult.TcpErrorTimeout
    /\ ReturnedNone

\* C4: VmaTcpSocket::connect returns Ok(true) on native success, Ok(false)
\* on native Timeout, and an error for every other native result code.
C4_TcpConnectTranslation ==
    op = "VmaTcpSocket::connect" =>
        /\ native_result = TcpResult.TcpSuccess => ReturnedBool(TRUE)
        /\ native_result = TcpResult.TcpErrorTimeout => ReturnedBool(FALSE)
        /\ native_result \in OtherTcpCodes({ TcpResult.TcpErrorTimeout }) => ReturnedErr

\* a connect that timed out came back as Ok(false)
C4_Witness ==
    /\ op = "VmaTcpSocket::connect"
    /\ native_result = TcpResult.TcpErrorTimeout
    /\ ReturnedBool(FALSE)

\* C5: VmaTcpSocket::try_reconnect returns Ok(true) on native success and
\* Ok(false) on native Timeout and on native ReconnectFailed; exactly the
\* remaining native result codes come back as errors.
C5_TryReconnectTranslation ==
    op = "VmaTcpSocket::try_reconnect" =>
        /\ native_result = TcpResult.TcpSuccess => ReturnedBool(TRUE)
        /\ native_result \in { TcpResult.TcpErrorTimeout, TcpResult.TcpErrorReconnect }
               => ReturnedBool(FALSE)
        /\ native_result \in OtherTcpCodes({ TcpResult.TcpErrorTimeout, TcpResult.TcpErrorReconnect })
               => ReturnedErr
        /\ ReturnedErr => native_result \notin { TcpResult.TcpSuccess, TcpResult.TcpErrorTimeout,
                                                 TcpResult.TcpErrorReconnect }

\* a failed reconnect came back as Ok(false)
C5_Witness ==
    /\ op = "VmaTcpSocket::try_reconnect"
    /\ native_result = TcpResult.TcpErrorReconnect
    /\ ReturnedBool(FALSE)

\* the recv and the recv_from operations of the UDP endpoint
UdpRecvOps == { "udp::VmaUdpSocket::recv", "lib::VmaUdpSocket::recv" }
UdpRecvFromOps == { "udp::VmaUdpSocket::recv_from", "lib::VmaUdpSocket::recv_from" }

\* C6: VmaUdpSocket::recv returns Ok(0) and VmaUdpSocket::recv_from returns
\* Ok(None) when the native call reports Timeout; a recv or recv_from with
\* a zero timeout on an endpoint with nothing queued, where the native call
\* did not fail for another reason, returns that success and never an error.
C6_UdpRecvTimeout ==
    /\ (op \in UdpRecvOps /\ native_result = UdpResult.UdpErrorTimeout) => ReturnedBytes(0)
    /\ (op \in UdpRecvFromOps /\ native_result = UdpResult.UdpErrorTimeout)
           => (ret.ty = "Option<Packet>" /\ ReturnedNone)
    /\ (/\ op \in UdpRecvOps \cup UdpRecvFromOps
        /\ timeout_ms = Some(0)
        /\ pending_at_call = 0
        /\ native_result \in { UdpResult.UdpSuccess, UdpResult.UdpErrorTimeout })
           => (IF op \in UdpRecvOps THEN ReturnedBytes(0) ELSE ReturnedNone)

\* a recv_from polling an empty endpoint with a zero timeout came back as
\* Ok(None)
C6_Witness ==
    /\ op = "udp::VmaUdpSocket::recv_from"
    /\ timeout_ms = Some(0)
    /\ pending_at_call = 0
    /\ native_result = UdpResult.UdpErrorTimeout
    /\ ret.ty = "Option<Packet>" /\ ReturnedNone

\* the send operations of the UDP endpoint
UdpSendOps == { "udp::VmaUdpSocket::send", "udp::VmaUdpSocket::send_to",
                "lib::VmaUdpSocket::send", "lib::VmaUdpSocket::send_to" }

\* C7: when the native UDP send (send or send_to) reports Timeout, the
\* UDP endpoint returns Ok(0), not an error.
C7_UdpSendTimeoutIsOk ==
    (op \in UdpSendOps /\ native_result = UdpResult.UdpErrorTimeout) => ReturnedBytes(0)

\* the operations of the TCP endpoint, the accepted client and the UDP
\* endpoint that hand a native result code on to the caller
TcpEndpointOps == { "VmaTcpSocket::accept", "VmaTcpSocket::connect", "VmaTcpSocket::try_reconnect",
                    "VmaTcpSocket::send", "VmaTcpSocket::recv" }
ClientOps == { "Client::send", "Client::recv" }
UdpEndpointOps == UdpSendOps \cup UdpRecvOps \cup UdpRecvFromOps

\* the native result is the Timeout or the WouldBlock code of the protocol
\* of the last call
NativeTimeoutOrWouldBlock ==
    \/ /\ op \in TcpEndpointOps \cup ClientOps
       /\ native_result \in { TcpResult.TcpErrorTimeout, TcpResult.TcpErrorWouldBlock }
    \/ /\ op \in UdpEndpointOps
       /\ native_result = UdpResult.UdpErrorTimeout

\* C8: for every operation of the TCP endpoint, the UDP endpoint and the
\* accepted client, a native Timeout or WouldBlock never reaches the caller
\* as an error: the call returns a success value.
C8_TimeoutWouldBlockNeverError ==
    NativeTimeoutOrWouldBlock => ret.tag = "Ok"

\* C9: Client::recv returns Ok(0), not an error, when the native client
\* recv reports Timeout or Closed, as VmaTcpSocket::recv does.
C9_ClientRecvBenign ==
    (/\ op = "Client::recv"
     /\ native_result \in { TcpResult.TcpErrorTimeout, TcpResult.TcpErrorClosed })
        => ReturnedBytes(0)

\* the policy table: the native code is listed as benign for the operation
TableBenign(o, code) ==
    \/ o \in UdpEndpointOps /\ code = UdpResult.UdpErrorTimeout
    \/ o = "VmaTcpSocket::connect" /\ code = TcpResult.TcpErrorTimeout
    \/ o = "VmaTcpSocket::accept" /\ code = TcpResult.TcpErrorTimeout
    \/ o \in { "VmaTcpSocket::send", "Client::send" } /\ code = TcpResult.TcpErrorWouldBlock
    \/ /\ o \in { "VmaTcpSocket::recv", "Client::recv" }
       /\ code \in { TcpResult.TcpErrorTimeout, TcpResult.TcpErrorClosed }
    \/ /\ o = "VmaTcpSocket::try_reconnect"
       /\ code \in { TcpResult.TcpErrorTimeout, TcpResult.TcpErrorReconnect }

\* the operations whose native call is made with a TcpResult / UdpResult code
\* that the wrapper hands on
AllTcpOps == TcpEndpointOps \cup ClientOps \cup
             { "VmaTcpSocket::new", "VmaTcpSocket::with_options", "VmaTcpSocket::bind",
               "VmaTcpSocket::listen", "VmaTcpSocket::get_stats", "Client::close" }
AllUdpOps == UdpEndpointOps \cup
             { "udp::VmaUdpSocket::new", "udp::VmaUdpSocket::bind", "udp::VmaUdpSocket::connect",
               "udp::VmaUdpSocket::get_stats", "lib::VmaUdpSocket::new", "lib::VmaUdpSocket::bind",
               "lib::VmaUdpSocket::connect", "lib::VmaUdpSocket::get_stats" }

\* the error value e names the native code: a String carries the variant's
\* Debug name, a TcpResult is the variant, an io::Error carries the kind and
\* message of the variant
ErrorNames(e, code) ==
    IF e.ty = "io::Error"
    THEN \E n \in DOMAIN UdpResult : UdpResult[n] = code /\ From_UdpResult[n] = e.val
    ELSE LET name == IF e.ty = "String" THEN e.val[2] ELSE e.val IN
         \/ op \in AllTcpOps /\ name \in DOMAIN TcpResult /\ TcpResult[name] = code
         \/ op \in AllUdpOps /\ name \in DOMAIN UdpResult /\ UdpResult[name] = code

\* C10: for every wrapper operation and every native non-success code that
\* the policy table does not list as benign for it, codes outside the
\* result-code table included, the operation returns an error, and the error
\* names that native code.
C10_OtherCodesAreErrors ==
    (/\ op \in AllTcpOps \cup AllUdpOps
     /\ native_result # 0
     /\ ~TableBenign(op, native_result))
        => (ReturnedErr /\ ErrorNames(ret, native_result))

\* ------------------------------------------------------------------------
\* The TCP state machine and the lifetimes of the handles
\* ------------------------------------------------------------------------
\* the step is a call on a VmaTcpSocket that is alive before and after it
TcpEndpointCall == tcp_open /\ tcp_open'

\* the endpoint is left as the step found it
TcpEndpointUntouched == UNCHANGED <<tcp_open, tcp_state, is_bound, tcp_closes>>

\* the operations the state machine turns down in state s of an endpoint
\* that is bound (b) or not: from Disconnected everything but bind, connect
\* and, once bound, listen; in Listening everything but accept; in Connected
\* listen
TcpIllegalOps(s, b) ==
    IF s = "Disconnected"
    THEN { "VmaTcpSocket::accept", "VmaTcpSocket::send", "VmaTcpSocket::recv" }
             \cup (IF b THEN {} ELSE { "VmaTcpSocket::listen" })
    ELSE IF s = "Listening"
    THEN { "VmaTcpSocket::bind", "VmaTcpSocket::listen", "VmaTcpSocket::connect",
           "VmaTcpSocket::send", "VmaTcpSocket::recv" }
    ELSE IF s = "Connected"
    THEN { "VmaTcpSocket::listen" }
    ELSE {}

\* C11: over any sequence of operations on one TCP endpoint, an operation
\* that is not legal in the endpoint's state (from Disconnected anything but
\* bind and connect, and listen once bound; after listen anything but accept,
\* so connect and send; after a successful connect, listen) returns an error
\* and leaves the endpoint as it was, with no client created; after a
\* successful connect a send or recv that the native engine carries out
\* returns its byte count and leaves the endpoint Connected.
C11_TcpStateLegality ==
    [][ /\ (TcpEndpointCall /\ op' \in TcpIllegalOps(tcp_state, is_bound))
               => (ret'.tag = "Err" /\ TcpEndpointUntouched /\ clients' = clients)
        /\ (/\ TcpEndpointCall /\ tcp_state = "Connected"
            /\ op' \in { "VmaTcpSocket::send", "VmaTcpSocket::recv" }
            /\ native_result' = TcpResult.TcpSuccess)
               => (ret' = Ok("usize", native_bytes') /\ TcpEndpointUntouched) ]_vars

\* a send on a listening endpoint came back as an error
C11_Witness ==
    /\ tcp_open /\ tcp_state = "Listening"
    /\ op = "VmaTcpSocket::send"
    /\ ReturnedErr

\* C12: connect is turned down with an error, the state kept, anywhere but
\* in Disconnected; from Disconnected, when it returns Ok(true) the endpoint
\* is Connected and is_connected() is true, when it returns Ok(false) or an
\* error the endpoint is Disconnected and is_connected() is false; connect
\* never leaves the endpoint in Connecting.
C12_StateAfterConnect ==
    [][ (TcpEndpointCall /\ op' = "VmaTcpSocket::connect") =>
            /\ tcp_state # "Disconnected" => (ret'.tag = "Err" /\ tcp_state' = tcp_state)
            /\ (tcp_state = "Disconnected" /\ ret' = Ok("bool", TRUE))
                   => (tcp_state' = "Connected" /\ tcp_socket_is_connected(tcp_state'))
            /\ (tcp_state = "Disconnected" /\ (ret' = Ok("bool", FALSE) \/ ret'.tag = "Err"))
                   => (tcp_state' = "Disconnected" /\ ~tcp_socket_is_connected(tcp_state'))
            /\ tcp_state' # "Connecting" ]_vars

\* a connect that timed out left the endpoint Disconnected
C12_Witness ==
    /\ tcp_open /\ tcp_state = "Disconnected"
    /\ op = "VmaTcpSocket::connect"
    /\ native_result = TcpResult.TcpErrorTimeout
    /\ ReturnedBool(FALSE)

\* C13: an accept leaves the listening endpoint's own state as it was,
\* whether it yields a client, no client or an error; on a Listening endpoint
\* with no connecting peer an accept with timeout 0, where the native call
\* did not fail for another reason, returns Ok(None), any number of times.
C13_AcceptKeepsListening ==
    [][ (TcpEndpointCall /\ op' = "VmaTcpSocket::accept") =>
            /\ TcpEndpointUntouched
            /\ (/\ tcp_state = "Listening"
                /\ arg' = Some(0)
                /\ pending_at_call' = 0
                /\ native_result' \in { TcpResult.TcpSuccess, TcpResult.TcpErrorTimeout })
                   => (ret'.tag = "Ok" /\ ret'.val = None /\ clients' = clients) ]_vars

\* an accept polling a listening endpoint with no peer came back as Ok(None)
\* and the endpoint is still Listening
C13_Witness ==
    /\ tcp_open /\ tcp_state = "Listening"
    /\ op = "VmaTcpSocket::accept"
    /\ arg = Some(0) /\ pending_at_call = 0
    /\ ReturnedNone

\* the operations made on the handle of a constructed endpoint
TcpHandleOps == (AllTcpOps \ { "VmaTcpSocket::new", "VmaTcpSocket::with_options", "Client::send",
                               "Client::recv", "Client::close" })
                    \cup { "VmaTcpSocket::is_connected" }
UdpHandleOps == AllUdpOps \ { "udp::VmaUdpSocket::new", "lib::VmaUdpSocket::new" }

\* C14: a TCP or UDP endpoint handle exists only when its native init
\* succeeded; the native close is called on it exactly once, in the step in
\* which the owning wrapper goes out of scope, never while the wrapper is
\* alive and never after a failed init; and every operation on the handle is
\* made while the wrapper is alive, so before that close.
C14_HandleClosedOnce ==
    [][ /\ tcp_open' => tcp_closes' = 0
        /\ (tcp_open /\ ~tcp_open') => (op' = "TcpSocketWrapper::drop" /\ tcp_closes' = 1)
        /\ op' = "TcpSocketWrapper::drop" => (tcp_open /\ ~tcp_open' /\ native_calls' = 1)
        /\ (~tcp_open /\ ~tcp_open') => tcp_closes' \in { 0, tcp_closes }
        /\ (~tcp_open /\ tcp_open') => (native_result' = TcpResult.TcpSuccess /\ ret'.tag = "Ok")
        /\ op' \in TcpHandleOps => (tcp_open /\ tcp_open' /\ tcp_closes = 0)
        /\ udp_impl' # "none" => udp_closes' = 0
        /\ (udp_impl # "none" /\ udp_impl' = "none")
               => (op' = "UdpSocketWrapper::drop" /\ udp_closes' = 1)
        /\ op' = "UdpSocketWrapper::drop"
               => (udp_impl # "none" /\ udp_impl' = "none" /\ native_calls' = 1)
        /\ (udp_impl = "none" /\ udp_impl' = "none") => udp_closes' \in { 0, udp_closes }
        /\ (udp_impl = "none" /\ udp_impl' # "none")
               => (native_result' = UdpResult.UdpSuccess /\ ret'.tag = "Ok")
        /\ op' \in UdpHandleOps => (udp_impl # "none" /\ udp_impl' = udp_impl /\ udp_closes = 0)
      ]_vars

\* both endpoints were constructed and have gone out of scope, each with its
\* one native close
C14_Witness ==
    /\ ~tcp_open /\ tcp_closes = 1
    /\ udp_impl = "none" /\ udp_closes = 1
    /\ op = "UdpSocketWrapper::drop"

ClientHandleOps == { "Client::send", "Client::recv", "Client::close", "Client::drop" }

\* C16: in every interleaving of the operations of a listening endpoint and
\* of a client it accepted, the end of the endpoint closes no client and
\* removes none, a client's operations leave the endpoint as it was, and a
\* client's send and recv return what its own native call reports whether the
\* endpoint is alive or not.
C16_ClientIndependent ==
    [][ /\ op' = "TcpSocketWrapper::drop" => UNCHANGED <<clients, closed_fd>>
        /\ op' \in ClientHandleOps => TcpEndpointUntouched
        /\ (/\ op' \in { "Client::send", "Client::recv" }
            /\ on_client' \notin closed_fd
            /\ native_result' = TcpResult.TcpSuccess)
               => (ret' = Ok("usize", native_bytes') /\ UNCHANGED <<clients, closed_fd>>) ]_vars

\* a client sent data after the endpoint that accepted it had gone out of
\* scope
C16_Witness ==
    /\ ~tcp_open /\ tcp_closes = 1
    /\ op = "Client::send"
    /\ on_client \in clients \ closed_fd
    /\ ReturnedBytes(MaxBytes)

\* C17: a listen with a backlog below 1, or on an endpoint with no
\* successful bind, returns an error and leaves the state as it was
\* (Disconnected stays Disconnected); a listen returns success only from
\* Disconnected, after a successful bind and with a backlog of at least 1,
\* and then the endpoint is Listening.
C17_ListenNeedsBindAndBacklog ==
    [][ (TcpEndpointCall /\ op' = "VmaTcpSocket::listen") =>
            /\ (arg'[1] < 1 \/ ~is_bound)
                   => (ret'.tag = "Err" /\ TcpEndpointUntouched)
            /\ ret'.tag = "Ok"
                   => (/\ tcp_state = "Disconnected" /\ is_bound /\ arg'[1] >= 1
                       /\ tcp_state' = "Listening") ]_vars

\* a listen with backlog 0 on a bound endpoint failed and left it Disconnected
C17_Witness ==
    /\ tcp_open /\ tcp_state = "Disconnected" /\ is_bound
    /\ op = "VmaTcpSocket::listen"
    /\ arg = Some(0)
    /\ ReturnedErr

\* the UDP operations that take a caller's timeout (udp.rs takes
\* nanoseconds, lib.rs takes a Duration)
UdpTimedOps ==
    { "udp::VmaUdpSocket::recv", "udp::VmaUdpSocket::recv_from",
      "lib::VmaUdpSocket::recv", "lib::VmaUdpSocket::recv_from" }

\* C18: the timeout convention at the native boundary, on the UDP receive
\* operations: an absent timeout reaches the native call as a negative
\* value, a zero timeout as 0, and every positive timeout as a positive
\* number of milliseconds.
C18_TimeoutConvention ==
    op \in UdpTimedOps =>
        /\ arg = None => timeout_ms[1] < 0
        /\ IsZeroTimeout(arg) => timeout_ms[1] = 0
        /\ IsPositiveTimeout(arg) => timeout_ms[1] > 0

\* C19: add_core appends in insertion order: after set_cores([]) followed by
\* add_core(c) for each c of a list of at most 128 cores, get_cores() is that
\* list, in that order.
C19_AddCoreInsertionOrder ==
    (inserted # None /\ Len(inserted[1]) <= MAX_CPU_CORES)
        => get_cores(options) = inserted[1]

\* after set_cores([]) the caller added MaxAdds cores, not all the same, the
\* last of them just now
C19_Witness ==
    /\ op = "VmaOptions::add_core" /\ ret.tag = "Ok"
    /\ inserted # None
    /\ Len(inserted[1]) = MaxAdds
    /\ inserted[1][1] # inserted[1][MaxAdds]
    /\ get_cores(options) = inserted[1]

\* C20: add_core on a profile that records 128 cores fails with the
\* capacity error and leaves the whole profile, the affinity set (contents
\* and count) with it, as it was.
C20_AddCoreAtCapacity ==
    [][ (op' = "VmaOptions::add_core" /\ options.cpu_cores_count = MAX_CPU_CORES) =>
            /\ ret' = Err("&str", "Maximum number of CPU cores reached")
            /\ options' = options
            /\ get_cores(options') = get_cores(options) ]_vars

\* an add_core on a profile with 128 cores has just failed
C20_Witness ==
    /\ op = "VmaOptions::add_core"
    /\ ret.tag = "Err"
    /\ options.cpu_cores_count = MAX_CPU_CORES
    /\ get_cores(options) = CoreRange(MAX_CPU_CORES)

\* C21: set_cores(list) replaces the whole affinity set at once: with at
\* most 128 entries it succeeds and get_cores() is the list, whatever the set
\* held before; with more than 128 entries it fails and the profile is as it
\* was.
C21_SetCoresAtomic ==
    [][ op' = "VmaOptions::set_cores" =>
            IF Len(arg'[1]) <= MAX_CPU_CORES
            THEN ret'.tag = "Ok" /\ get_cores(options') = arg'[1]
            ELSE ret'.tag = "Err" /\ options' = options ]_vars

\* a set_cores of 129 cores has just failed on a profile that holds cores
C21_Witness ==
    /\ op = "VmaOptions::set_cores"
    /\ Len(arg[1]) > MAX_CPU_CORES
    /\ ret.tag = "Err"
    /\ options.cpu_cores_count > 0

\* C22: no element of the affinity set is negative, after any sequence of
\* add_core, set_cores and clear_cores on any preset.
C22_CoresNonNegative ==
    \A i \in 1..options.cpu_cores_count : get_cores(options)[i] >= 0

\* C23: the affinity set stays within its bound: 0 <= cpu_cores_count <= 128,
\* get_cores() has cpu_cores_count entries, and clear_cores leaves it empty.
C23_CoresWithinBound ==
    /\ options.cpu_cores_count >= 0
    /\ options.cpu_cores_count <= MAX_CPU_CORES
    /\ Len(get_cores(options)) = options.cpu_cores_count
    /\ op = "VmaOptions::clear_cores" => get_cores(options) = <<>>

\* an add_core has just failed on a full profile, whose get_cores() has 128 entries
C23_Witness ==
    /\ options.cpu_cores_count = MAX_CPU_CORES
    /\ op = "VmaOptions::add_core" /\ ret.tag = "Err"
    /\ Len(get_cores(options)) = MAX_CPU_CORES

\* C24: the presets carry the stated values; each has ring_count >= 0,
\* buffer_size > 0 and an empty affinity set.
C24_PresetValues ==
    /\ op = "VmaOptions::default" =>
          /\ ret.val = [ use_socketxtreme |-> TRUE, optimize_for_latency |-> TRUE,
                         use_polling |-> TRUE, ring_count |-> 4, buffer_size |-> 65536,
                         enable_timestamps |-> TRUE, use_hugepages |-> TRUE,
                         tx_bufs |-> 10000, rx_bufs |-> 10000, disable_poll_yield |-> TRUE,
                         skip_os_select |-> TRUE, keep_qp_full |-> TRUE,
                         cpu_cores |-> [i \in 0..127 |-> 0], cpu_cores_count |-> 0 ]
    /\ op = "VmaOptions::low_latency" =>
          /\ ret.val.ring_count = 1 /\ ret.val.buffer_size = 8192
          /\ ret.val.tx_bufs = 32 /\ ret.val.rx_bufs = 16
          /\ ret.val.optimize_for_latency /\ ret.val.use_polling
          /\ ret.val.disable_poll_yield /\ ret.val.skip_os_select /\ ret.val.keep_qp_full
    /\ op = "VmaOptions::high_throughput" =>
          /\ ret.val.ring_count > 1 /\ ret.val.buffer_size = 65536
          /\ ret.val.tx_bufs = 20000 /\ ret.val.rx_bufs = 20000
          /\ ~ret.val.enable_timestamps /\ ~ret.val.disable_poll_yield
    /\ op \in { "VmaOptions::default", "VmaOptions::low_latency", "VmaOptions::high_throughput" } =>
          /\ ret.tag = "Ok" /\ options = ret.val
          /\ ret.val.ring_count >= 0 /\ ret.val.buffer_size > 0
          /\ get_cores(ret.val) = <<>>

\* high_throughput() has just been built, with the timestamps off
C24_Witness ==
    /\ op = "VmaOptions::high_throughput"
    /\ options = ret.val
    /\ ~options.enable_timestamps

\* the operations that decode a native address
AddressOps == { "sockaddr_to_rust", "lib::UdpSocketWrapper::recv_from src_addr" }

\* C25: address round trip: an (IPv4 address, port) pair encoded into the
\* native address structure (port and address in network byte order) and
\* decoded back is the original pair.
C25_AddressRoundTrip ==
    op \in AddressOps => (ret.tag = "Ok" /\ ret.val = arg[1])

\* sockaddr_to_rust has decoded 1.0.0.255:8080, whose bytes differ in both fields
C25_Witness ==
    /\ op = "sockaddr_to_rust"
    /\ arg = Some(SocketAddr_new(<<1, 0, 0, 255>>, 8080))
    /\ ret.val = SocketAddr_new(<<1, 0, 0, 255>>, 8080)

\* C26: serialization round trip: for every VmaOptions reachable from a
\* preset by add_core, set_cores and clear_cores, deserializing its
\* serialized form gives a value equal to it (flags, counts, the core count
\* and the whole 128-slot array).
C26_SerdeRoundTrip ==
    op = "VmaOptions: serialize, deserialize" => ret = Ok("VmaOptions", options)

\* a high_throughput profile with MaxAdds cores has come back from the round trip
C26_Witness ==
    /\ op = "VmaOptions: serialize, deserialize"
    /\ ~options.enable_timestamps
    /\ options.cpu_cores_count = MaxAdds
    /\ ret.val = options

\* the cores an input map lists (none when it has no cpu_cores entry)
ListedCores(map) ==
    LET at == { i \in DOMAIN map : map[i][1] = "cpu_cores" }
    IN  IF at = {} THEN <<>> ELSE map[CHOOSE i \in at : TRUE][2]

\* C29: a successful deserialization gives 0 <= cpu_cores_count <= 128 with
\* cpu_cores_count the number of cores the input listed (0 when it listed
\* none), whatever subset of cpu_cores and cpu_cores_count the input carries
\* and in whatever order; an input listing more than 128 cores is rejected.
C29_DeserializedCount ==
    op = "VmaOptions::deserialize" =>
        IF Len(ListedCores(arg[1])) > MAX_CPU_CORES
        THEN ret.tag = "Err"
        ELSE /\ ret.tag = "Ok"
             /\ ret.val.cpu_cores_count = Len(ListedCores(arg[1]))
             /\ ret.val.cpu_cores_count >= 0
             /\ ret.val.cpu_cores_count <= MAX_CPU_CORES

\* the wrapper operations that forward to one native function: all but the
\* constructors, the ends of scope, close and is_connected
ForwardingOps ==
    (AllTcpOps \cup AllUdpOps)
        \ { "VmaTcpSocket::new", "VmaTcpSocket::with_options", "Client::close",
            "udp::VmaUdpSocket::new", "lib::VmaUdpSocket::new" }

C28_FiniteTimeoutStaysFinite ==
    (op \in UdpTimedOps /\ arg # None) => timeout_ms[1] >= 0

\* C30: an accept whose native call returned a non-success code creates no
\* client; a Client, and with it a later native client-close, exists only for
\* a native accept that returned success, never for the zero handle that
\* accept passed to the native call.
C30_FailedAcceptNoClient ==
    [][ /\ (op' = "VmaTcpSocket::accept" /\ native_result' # TcpResult.TcpSuccess)
               => (/\ UNCHANGED <<clients, closed_fd>>
                   /\ ret'.tag = "Ok" => ret'.val = None)
        /\ clients' # clients
               => \/ (op' = "VmaTcpSocket::accept" /\ native_result' = TcpResult.TcpSuccess
                      /\ clients \subseteq clients')
                  \/ (op' = "Client::drop" /\ clients' = clients \ { on_client' })
        /\ 0 \notin clients'
        /\ (op' \in { "Client::close", "Client::drop" } /\ native_calls' > 0)
               => on_client' \in clients ]_vars

\* an accept whose native call failed has returned an error and no client exists
C30_Witness ==
    /\ op = "VmaTcpSocket::accept"
    /\ native_result \notin { TcpResult.TcpSuccess, TcpResult.TcpErrorTimeout }
    /\ ret.tag = "Err"
    /\ clients = {}

====
